---- MODULE Spec2Model ----
(***************************************************************************)
(* Model of the fanion feature-flag library: the FeatureManager registry   *)
(* (packages/fanion/src/feature.ts, in its two revisions), the in-memory   *)
(* storage driver and the AdonisJS FanionService that wraps the registry.  *)
(***************************************************************************)
EXTENDS Integers, Sequences, FiniteSets, Bags, TLC

VARIABLES featureMap, hasStore, storage, storeUp, definedFlags,
          defaultContextProvider, unhandled, last,
          defineHistory, storeHistory,
          driver, tableExists, autoInit, request, rollout,
          requests, call, issued, many, storing, inits

vars == <<featureMap, hasStore, storage, storeUp, definedFlags,
          defaultContextProvider, unhandled, last,
          defineHistory, storeHistory,
          driver, tableExists, autoInit, request, rollout,
          requests, call, issued, many, storing, inits>>

\* the requests a database has received and not yet served, the call of
\* active that waits for the store, and the values handed to the calls of
\* defineAndStore nobody waited for
flight == <<requests, call, issued>>

\* the call of activeMany that waits for its evaluations, and the call of
\* the service's defineAndStore that waits for the manager's
joins == <<many, storing>>

\* the calls that initialize the store and are under way
setup == <<inits>>

\* the calls that are under way
tasks == <<flight, joins, setup>>

\* the storage driver in use and its table, the autoInit of the service's
\* configuration, the request a middleware handled, the rollout decision
\* a helper took, and the calls under way
ext == <<driver, tableExists, autoInit, request, rollout, tasks>>

----------------------------------------------------------------------------
(* Input domains *)

\* longest list of names handed to activeMany
MaxFlags == 2

\* flag names used by the callers
Names == {"flag-1", "flag-2"}

\* the value of an omitted argument
Undefined == "undefined"

\* contexts handed to active: omitted, or one of two context objects
Contexts == {Undefined, "admin", "guest"}

\* a context that is a value and is falsy: the number 0
Zero == "zero"

\* the context activeForRequest builds when it is handed no additional
\* context: an object with ctx, user, ip and userAgent, and no isAdmin
Request == "request"

\* the contexts a caller of the service provides: the omitted one, the two
\* context objects, and the number 0
ServiceContexts == Contexts \cup {Zero}

\* evaluators handed to define:
\*   asyncIsAdmin  async (context) => context.isAdmin
\*                 (admin has isAdmin true, guest has isAdmin false, the
\*                 number 0 and the context of a request have no isAdmin, and
\*                 reading it off an omitted context throws)
\*   alwaysFalse   () => false
\*   boom          () => { throw new Error("boom") }
Checks == {"alwaysFalse", "asyncIsAdmin", "boom"}

\* an evaluator whose promise never settles:
\*   never         () => new Promise(() => {})
Never == "never"

\* default context providers a service can be configured with
Providers == {Undefined, "adminProvider", "failingProvider"}

Range(s) == {s[i] : i \in 1..Len(s)}

FlagLists == UNION {[1..k -> Names] : k \in 0..MaxFlags}

----------------------------------------------------------------------------
(* Outcomes of a call *)

Return(b) == [kind |-> "return", value |-> b, error |-> "none", message |-> <<>>]

Void == [kind |-> "void", value |-> FALSE, error |-> "none", message |-> <<>>]

Throw(e, m) == [kind |-> "throw", value |-> FALSE, error |-> e, message |-> m]

\* a call that resolves with a number: the rows a delete statement removed
Deleted(n) == [kind |-> "number", value |-> FALSE, error |-> "none", message |-> <<n>>]

\* a call that has not completed: the promise it returned is pending
Pending == [kind |-> "pending", value |-> FALSE, error |-> "none", message |-> <<>>]

\* errors.ts: FeatureNotExistsError builds its message around its argument,
\* and active hands it a sentence that quotes the flag name
FeatureNotExistsError(featureName) ==
    Throw("FeatureNotExistsError", <<"Feature ">> \o featureName \o <<" does not exists">>)

NotDefinedMessage(flagName) == <<"Feature flag '", flagName, "' is not defined">>

NoStoreError == Throw("Error", <<"No store provider defined">>)

BoomError == Throw("Error", <<"boom">>)

\* reading a property of an omitted context
TypeError == Throw("TypeError", <<"Cannot read properties of undefined">>)

StoreError == Throw("StoreError", <<"storage failed">>)

ProviderError == Throw("ProviderError", <<"context provider failed">>)

----------------------------------------------------------------------------
(* Maps: a JavaScript Map is a function whose domain is its key set *)

MapSet(m, k, v) == [x \in DOMAIN m \cup {k} |-> IF x = k THEN v ELSE m[x]]

MapDelete(m, k) == [x \in DOMAIN m \ {k} |-> m[x]]

EmptyMap == [x \in {} |-> Undefined]

----------------------------------------------------------------------------
(* Evaluators and context providers: the callers' functions *)

\* what calling evaluator chk with context yields before any await: a value
\* or a thrown error, or (promise) a promise that settles to out.  The
\* isAdmin of a context that has none is undefined, and is handed on as it is
check(chk, context) ==
    CASE chk = "asyncIsAdmin" ->
           [promise |-> TRUE,
            out |-> IF context = Undefined THEN TypeError
                    ELSE IF context \in {Zero, Request} THEN Void
                    ELSE Return(context = "admin")]
      [] chk = "alwaysFalse" -> [promise |-> FALSE, out |-> Return(FALSE)]
      [] chk = "boom" -> [promise |-> FALSE, out |-> BoomError]
      [] chk = "never" -> [promise |-> TRUE, out |-> Pending]

\* await x: a promise yields what it settles to, any other value itself
Await(x) == x.out

\* a value coerced to a condition: every promise object is truthy
Truthy(x) == IF x.promise THEN Return(TRUE) ELSE x.out

\* a context provider, called: the context it returns
callProvider(provider) ==
    IF provider = "failingProvider"
    THEN [out |-> ProviderError, context |-> Undefined]
    ELSE IF provider = "zeroProvider"
    THEN [out |-> Void, context |-> Zero]
    ELSE [out |-> Void, context |-> "admin"]

----------------------------------------------------------------------------
(* The storage providers.  storage holds what the backend keeps for each   *)
(* name: the in-memory driver its Map of booleans, the Knex driver the     *)
(* rows of its table, the DynamoDB driver its marshalled items.  A backend *)
(* that is down rejects every call (the failing stores of the service      *)
(* tests), and a database rejects the calls on a table that does not exist *)

\* the stores a manager is built with: the in-memory driver, the Knex
\* driver on a client that keeps a boolean column as the integers 0 and 1
\* (sqlite3) or as booleans, the DynamoDB driver, and the object literals
\* of the service tests, which have set, get, delete and initStore
Drivers == {"memory", "knexInteger", "knexBoolean", "dynamodb", "stub"}

KnexDrivers == {"knexInteger", "knexBoolean"}

\* the drivers that keep their flags in a table they create
DatabaseDrivers == KnexDrivers \cup {"dynamodb"}

\* calling a method the store object does not have
NotAFunction == Throw("TypeError", <<"this.store.initStore is not a function">>)

\* #waitForTableActive giving up
NotActiveError == Throw("Error", <<"Table did not become active within expected time">>)

\* a value of the value column, as the database client hands it back
IntegerColumn(n) == [integer |-> TRUE, n |-> n, b |-> FALSE]

BooleanColumn(b) == [integer |-> FALSE, n |-> 0, b |-> b]

\* the column the database keeps for an inserted boolean
toColumn(value) ==
    IF driver = "knexInteger"
    THEN IntegerColumn(IF value THEN 1 ELSE 0)
    ELSE BooleanColumn(value)

NumberIsInteger(featureValue) == featureValue.integer

\* marshall and unmarshall of the value attribute of an item
marshall(value) == [BOOL |-> value]

unmarshall(attribute) == attribute.BOOL

\* InMemoryDriver.set
memorySet(flag, value) ==
    IF storeUp
    THEN [out |-> Void, storage |-> MapSet(storage, flag, value)]
    ELSE [out |-> StoreError, storage |-> storage]

\* InMemoryDriver.get
memoryGet(flag) ==
    IF ~storeUp THEN StoreError
    ELSE IF flag \in DOMAIN storage THEN Return(storage[flag])
    ELSE Void

\* InMemoryDriver.delete
memoryDelete(featureName) ==
    IF storeUp
    THEN [out |-> Void, storage |-> MapDelete(storage, featureName)]
    ELSE [out |-> StoreError, storage |-> storage]

\* KnexDatabaseDriver.set that inserts and leaves a row that is there alone
knexSetIgnore(flag, value) ==
    IF storeUp /\ tableExists
    THEN [out |-> Void,
          storage |-> IF flag \in DOMAIN storage THEN storage
                      ELSE MapSet(storage, flag, toColumn(value))]
    ELSE [out |-> StoreError, storage |-> storage]

\* KnexDatabaseDriver.set: insert, and on a conflict on the name merge
knexSet(flag, value) ==
    IF storeUp /\ tableExists
    THEN [out |-> Void, storage |-> MapSet(storage, flag, toColumn(value))]
    ELSE [out |-> StoreError, storage |-> storage]

\* KnexDatabaseDriver.get: first() hands back undefined when no row
\* matches, and the value column is read off it all the same
knexGet(flag) ==
    IF ~(storeUp /\ tableExists) THEN StoreError
    ELSE IF flag \notin DOMAIN storage THEN TypeError
    ELSE IF NumberIsInteger(storage[flag])
    THEN Return(storage[flag].n = 1)
    ELSE Return(storage[flag].b)

\* KnexDatabaseDriver.delete: the promise of del() is returned as it is,
\* and resolves with the number of rows deleted
knexDelete(featureName) ==
    IF storeUp /\ tableExists
    THEN [out |-> Deleted(IF featureName \in DOMAIN storage THEN 1 ELSE 0),
          storage |-> MapDelete(storage, featureName)]
    ELSE [out |-> StoreError, storage |-> storage]

\* DynamoDBDatabaseDriver.set: PutItem replaces the item of the name
dynamoSet(flag, value) ==
    IF storeUp /\ tableExists
    THEN [out |-> Void, storage |-> MapSet(storage, flag, marshall(value))]
    ELSE [out |-> StoreError, storage |-> storage]

\* DynamoDBDatabaseDriver.get: every error of the client is caught and
\* answered by undefined
dynamoGet(flag) ==
    IF ~(storeUp /\ tableExists) THEN Void
    ELSE IF flag \notin DOMAIN storage THEN Void
    ELSE Return(unmarshall(storage[flag]))

\* DynamoDBDatabaseDriver.delete
dynamoDelete(featureName) ==
    IF storeUp /\ tableExists
    THEN [out |-> Void, storage |-> MapDelete(storage, featureName)]
    ELSE [out |-> StoreError, storage |-> storage]

\* this.store.set(flag, value) on the store attached
storeSet(flag, value) ==
    CASE driver \in KnexDrivers -> knexSet(flag, value)
      [] driver = "dynamodb" -> dynamoSet(flag, value)
      [] OTHER -> memorySet(flag, value)

\* get written with || in place of ??: a stored false reads as absent
storeGetOr(flag) ==
    IF ~storeUp THEN StoreError
    ELSE IF flag \in DOMAIN storage /\ storage[flag] THEN Return(TRUE)
    ELSE Void

\* this.store.get(flag) on the store attached
storeGet(flag) ==
    CASE driver \in KnexDrivers -> knexGet(flag)
      [] driver = "dynamodb" -> dynamoGet(flag)
      [] OTHER -> memoryGet(flag)

\* this.store.delete(featureName) on the store attached
storeDelete(featureName) ==
    CASE driver \in KnexDrivers -> knexDelete(featureName)
      [] driver = "dynamodb" -> dynamoDelete(featureName)
      [] OTHER -> memoryDelete(featureName)

----------------------------------------------------------------------------
(* Initialization of the store.  A call of an entry point runs up to the   *)
(* first command it sends to the database, and goes on each time the       *)
(* database answers; calls of several callers overlap                      *)

\* most callers that initialize the store at the same time
MaxInits == 2

Invocations == 1..MaxInits

\* createTable on a table that is there
TableExistsError == Throw("Error", <<"table already exists">>)

\* CreateTable on a table that is there
ResourceInUseError == Throw("ResourceInUseException", <<"Table already exists">>)

\* createWithDatabase on a configuration without a store
StoreRequiredError ==
    Throw("Error", <<"Storage provider is required for database initialization">>)

\* the manager featureManagerWithDatabase resolves with
Manager == [kind |-> "manager", value |-> FALSE, error |-> "none", message |-> <<>>]

\* the service createWithDatabase resolves with
Service == [kind |-> "service", value |-> FALSE, error |-> "none", message |-> <<>>]

\* a call of an entry point: where it stands, the entry point, whether it
\* asked the store, what hasTable (Knex) and the first DescribeTable
\* (DynamoDB) answered, whether its create statement made the table, the
\* attempt of the waiting loop, the CreateTable and the status commands it
\* has sent, what the last status command was answered, what the store's
\* initStore ended with and what the entry point ended with
NoInit ==
    [state |-> "idle", via |-> "none", asked |-> FALSE, hasTable |-> FALSE,
     first |-> "none", created |-> FALSE, attempt |-> 0, creates |-> 0, polls |-> 0,
     status |-> "none", answer |-> Void, out |-> Void]

\* initStore that catches what the store's initStore raises
initStoreCatches(answer) == Void

\* FeatureManager.initStore(): await this.store?.initStore(), with what the
\* store's initStore ended with
initStore(answer) == answer

\* featureManagerWithDatabase(config), that is initWithDatabase: the new
\* manager is returned once its initStore has completed
featureManagerWithDatabase(answer) ==
    IF initStore(answer).kind = "throw" THEN initStore(answer) ELSE Manager

\* FanionService.initialize(): a failure of initStore is logged and thrown
\* again
initialize(answer) == initStore(answer)

\* FanionService.createWithDatabase(config), also reached through
\* createFanionServiceWithDatabase: a service around the manager that
\* featureManagerWithDatabase returned
createWithDatabase(answer) ==
    IF featureManagerWithDatabase(answer).kind = "throw"
    THEN featureManagerWithDatabase(answer)
    ELSE Service

\* the store's initStore of call c has ended with answer, and the entry
\* point ends with it
ended(c, answer) ==
    [c EXCEPT !.state = "done", !.asked = TRUE, !.answer = answer,
              !.out = CASE c.via = "initStore" -> initStore(answer)
                        [] c.via = "featureManagerWithDatabase" ->
                             featureManagerWithDatabase(answer)
                        [] c.via = "initialize" -> initialize(answer)
                        [] c.via = "createWithDatabase" -> createWithDatabase(answer)
                        [] OTHER -> answer]

\* an entry point that ends without asking the store
skipped(c, out) == [c EXCEPT !.state = "done", !.out = out]

\* this.store.initStore() up to its first await: a database driver sends
\* the command that looks for its table, the stores of the service tests
\* answer at once, and the in-memory driver has no such method
storeInitStore(c) ==
    CASE driver \in KnexDrivers -> [c EXCEPT !.state = "checking", !.asked = TRUE]
      [] driver = "dynamodb" -> [c EXCEPT !.state = "describing", !.asked = TRUE]
      [] driver = "stub" -> ended(c, IF storeUp THEN Void ELSE StoreError)
      [] OTHER -> ended(c, NotAFunction)

\* the entry point via is called: the call up to its first await.  The
\* optional chaining of initStore and the test of initialize skip a store
\* that is missing, createWithDatabase rejects a configuration without one
called(via) ==
    LET c == [NoInit EXCEPT !.via = via]
    IN  CASE via = "initialize" ->
               IF hasStore /\ autoInit THEN storeInitStore(c) ELSE skipped(c, Void)
          [] via = "createWithDatabase" ->
               IF hasStore THEN storeInitStore(c) ELSE skipped(c, StoreRequiredError)
          [] via = "featureManagerWithDatabase" ->
               IF hasStore THEN storeInitStore(c) ELSE skipped(c, Manager)
          [] via = "initStore" ->
               IF hasStore THEN storeInitStore(c) ELSE skipped(c, Void)
          [] OTHER -> storeInitStore(c)

\* knex.schema.hasTable(tableName), answered by the database
hasTable == tableExists

\* createTableIfNotExists once hasTable is answered: a table that is there
\* ends the call, for a missing one createTable is sent
knexChecked(c) ==
    IF ~storeUp THEN ended(c, StoreError)
    ELSE IF hasTable THEN ended([c EXCEPT !.hasTable = TRUE], Void)
    ELSE [c EXCEPT !.state = "creating"]

\* the database executes the createTable of a call: it makes the table, or
\* rejects the statement when the table is there by now
knexCreated(c) ==
    IF ~storeUp THEN ended(c, StoreError)
    ELSE IF tableExists THEN ended(c, TableExistsError)
    ELSE ended([c EXCEPT !.created = TRUE], Void)

\* maxAttempts of #waitForTableActive
MaxAttempts == 30

\* what DescribeTable is answered: an error of the client when the backend
\* is down, the table when there is one, ResourceNotFoundException if not
describeTable ==
    IF ~storeUp THEN "error"
    ELSE IF tableExists THEN "found"
    ELSE "ResourceNotFoundException"

\* createTableIfNotExists once its DescribeTable is answered: a table that
\* is there ends the call, a missing one has CreateTable sent, and any
\* other error is thrown again
described(c, answer) ==
    CASE answer = "found" -> ended([c EXCEPT !.first = answer], Void)
      [] answer = "ResourceNotFoundException" ->
           [c EXCEPT !.state = "creating", !.first = answer, !.creates = @ + 1]
      [] OTHER -> ended([c EXCEPT !.first = answer], StoreError)

\* the CreateTable of a call is answered: the table is being created and
\* the call waits for it; the command fails when the backend is down or the
\* table is there by now, and its error ends the call
dynamoCreated(c) ==
    IF ~storeUp THEN ended(c, StoreError)
    ELSE IF tableExists THEN ended(c, ResourceInUseError)
    ELSE [c EXCEPT !.state = "waiting", !.created = TRUE]

\* a waiting loop that tries an attempt again when its status call failed
waitForTableActiveRetries(c, status) ==
    LET polled == [c EXCEPT !.polls = @ + 1, !.status = status]
    IN  IF status = "error" THEN polled
        ELSE IF status = "ACTIVE" THEN ended(polled, Void)
        ELSE IF c.attempt + 1 < MaxAttempts
        THEN [polled EXCEPT !.attempt = @ + 1]
        ELSE ended([polled EXCEPT !.attempt = @ + 1], NotActiveError)

\* one turn of the loop of #waitForTableActive: a status call, which ends
\* the wait when it answers ACTIVE; any other answer and any error uses up
\* the attempt, and the last attempt used up makes the call fail
waitForTableActive(c, status) ==
    LET polled == [c EXCEPT !.polls = @ + 1, !.status = status]
    IN  IF status = "ACTIVE" THEN ended(polled, Void)
        ELSE IF c.attempt + 1 < MaxAttempts
        THEN [polled EXCEPT !.attempt = @ + 1]
        ELSE ended([polled EXCEPT !.attempt = @ + 1], NotActiveError)

----------------------------------------------------------------------------
(* FeatureManager *)

\* the outcome of a call together with what the call touched: the names it
\* read from the store, the evaluator invocations <<name, context>> it made
\* and the number of times it called the default context provider
Result(out, storeReads, checkCalls, providerCalls) ==
    [out |-> out, storeReads |-> storeReads, checkCalls |-> checkCalls,
     providerCalls |-> providerCalls]

\* active with the evaluator's result tested, not awaited
activeNoAwait(flagName, context) ==
    IF flagName \notin DOMAIN featureMap
    THEN IF hasStore
         THEN IF storeGet(flagName).kind # "void"
              THEN Result(storeGet(flagName), {flagName}, <<>>, 0)
              ELSE Result(FeatureNotExistsError(NotDefinedMessage(flagName)),
                          {flagName}, <<>>, 0)
         ELSE Result(FeatureNotExistsError(NotDefinedMessage(flagName)), {}, <<>>, 0)
    ELSE IF featureMap[flagName] = Undefined
         THEN Result(Return(TRUE), {}, <<>>, 0)
         ELSE Result(Truthy(check(featureMap[flagName], context)),
                     {}, <<<<flagName, context>>>>, 0)

\* active that asks the store before the definitions
activeStoreFirst(flagName, context) ==
    IF hasStore /\ storeGet(flagName).kind # "void"
    THEN Result(storeGet(flagName), {flagName}, <<>>, 0)
    ELSE IF flagName \notin DOMAIN featureMap
    THEN Result(FeatureNotExistsError(NotDefinedMessage(flagName)),
                IF hasStore THEN {flagName} ELSE {}, <<>>, 0)
    ELSE IF featureMap[flagName] = Undefined
         THEN Result(Return(TRUE), IF hasStore THEN {flagName} ELSE {}, <<>>, 0)
         ELSE Result(Await(check(featureMap[flagName], context)),
                     IF hasStore THEN {flagName} ELSE {}, <<<<flagName, context>>>>, 0)

\* active that tests featureMap.get(flagName) === undefined in place of
\* featureMap.has(flagName): a flag defined without a check counts as unknown
activeGetUndefined(flagName, context) ==
    IF flagName \notin DOMAIN featureMap \/ featureMap[flagName] = Undefined
    THEN IF hasStore
         THEN IF storeGet(flagName).kind # "void"
              THEN Result(storeGet(flagName), {flagName}, <<>>, 0)
              ELSE Result(FeatureNotExistsError(NotDefinedMessage(flagName)),
                          {flagName}, <<>>, 0)
         ELSE Result(FeatureNotExistsError(NotDefinedMessage(flagName)), {}, <<>>, 0)
    ELSE Result(Await(check(featureMap[flagName], context)),
                {}, <<<<flagName, context>>>>, 0)

\* active that answers false for an unknown flag
activeDefaultFalse(flagName, context) ==
    IF flagName \notin DOMAIN featureMap
    THEN IF hasStore
         THEN IF storeGet(flagName).kind # "void"
              THEN Result(storeGet(flagName), {flagName}, <<>>, 0)
              ELSE Result(Return(FALSE), {flagName}, <<>>, 0)
         ELSE Result(Return(FALSE), {}, <<>>, 0)
    ELSE IF featureMap[flagName] = Undefined
         THEN Result(Return(TRUE), {}, <<>>, 0)
         ELSE Result(Await(check(featureMap[flagName], context)),
                     {}, <<<<flagName, context>>>>, 0)

\* active(flagName, context): the outcome of the call and what it touched
active(flagName, context) ==
    IF flagName \notin DOMAIN featureMap
    THEN IF hasStore
         THEN IF storeGet(flagName).kind # "void"
              THEN Result(storeGet(flagName), {flagName}, <<>>, 0)
              ELSE Result(FeatureNotExistsError(NotDefinedMessage(flagName)),
                          {flagName}, <<>>, 0)
         ELSE Result(FeatureNotExistsError(NotDefinedMessage(flagName)), {}, <<>>, 0)
    ELSE IF featureMap[flagName] = Undefined
         THEN Result(Return(TRUE), {}, <<>>, 0)
         ELSE Result(Await(check(featureMap[flagName], context)),
                     {}, <<<<flagName, context>>>>, 0)

\* define that starts the featureMap anew
defineForgets(flagName, chk) == [x \in {flagName} |-> chk]

\* define(flagName, check): the featureMap afterwards; an omitted check is
\* stored as undefined
define(flagName, chk) == MapSet(featureMap, flagName, chk)

\* defineAndStore that registers the flag before it looks for the store
defineAndStoreRegisters(flagName, defaultValue) ==
    IF ~hasStore
    THEN [out |-> NoStoreError, featureMap |-> MapSet(featureMap, flagName, Undefined),
          storage |-> storage]
    ELSE [out |-> storeSet(flagName, defaultValue).out,
          featureMap |-> MapSet(featureMap, flagName, Undefined),
          storage |-> storeSet(flagName, defaultValue).storage]

\* defineAndStore that takes the flag out of the definitions once it is in
\* the store
defineAndStoreUnregisters(flagName, defaultValue) ==
    IF ~hasStore
    THEN [out |-> NoStoreError, featureMap |-> featureMap, storage |-> storage]
    ELSE [out |-> storeSet(flagName, defaultValue).out,
          featureMap |-> MapDelete(featureMap, flagName),
          storage |-> storeSet(flagName, defaultValue).storage]

\* defineAndStore(flagName, defaultValue) of the revision that awaits the
\* store: the outcome of the call, and the featureMap and the storage
\* afterwards
defineAndStore(flagName, defaultValue) ==
    IF ~hasStore
    THEN [out |-> NoStoreError, featureMap |-> featureMap, storage |-> storage]
    ELSE [out |-> storeSet(flagName, defaultValue).out,
          featureMap |-> featureMap,
          storage |-> storeSet(flagName, defaultValue).storage]

\* defineAndStore(flagName, defaultValue) of the revision that calls
\* store.set and drops its promise: the call returns at once, and a
\* rejection of the write is left unhandled
defineAndStoreSync(flagName, defaultValue) ==
    IF ~hasStore
    THEN [out |-> NoStoreError, featureMap |-> featureMap, storage |-> storage,
          unhandled |-> {}]
    ELSE [out |-> Void,
          featureMap |-> featureMap,
          storage |-> storeSet(flagName, defaultValue).storage,
          unhandled |-> IF storeSet(flagName, defaultValue).out.kind = "throw"
                        THEN {storeSet(flagName, defaultValue).out}
                        ELSE {}]

----------------------------------------------------------------------------
(* Calls under way: the steps of defineAndStore and of active around their *)
(* awaits.  The in-memory driver touches its Map before set and get        *)
(* return; a database driver sends a request, and the database serves the  *)
(* requests it has received in an order of its own                         *)

\* most requests a database holds unserved
MaxPending == 2

\* a write a database has received
SetRequest(flag, value) == [op |-> "set", flag |-> flag, value |-> value]

\* this.store.set(flag, value) up to its await: a database driver sends a
\* command of its own for every call, which joins the ones that wait, and
\* the in-memory driver has written its Map.  The storage and the requests
\* of the database afterwards, and what the write has ended with by then
sendSet(flag, value) ==
    IF driver \in DatabaseDrivers
    THEN [storage |-> storage,
          requests |-> requests (+) SetToBag({SetRequest(flag, value)}),
          written |-> FALSE, out |-> Void]
    ELSE [storage |-> storeSet(flag, value).storage, requests |-> requests,
          written |-> storeSet(flag, value).out.kind # "throw",
          out |-> storeSet(flag, value).out]

\* a call of active: where it stands, its arguments, whether the name was
\* in the definitions when it started, the value a defineAndStore nobody
\* waited for had been handed for the name by then, whether it read the
\* store and what the store answered, its outcome and the evaluator
\* invocations it made
NoActive ==
    [state |-> "idle", name |-> Undefined, context |-> Undefined,
     registered |-> FALSE, expected |-> Undefined, read |-> FALSE, answer |-> Void,
     out |-> Void, checkCalls |-> <<>>]

\* active started: a call that has to wait for the database to answer
Reading(flagName, context) ==
    [NoActive EXCEPT !.state = "reading", !.name = flagName, !.context = context,
                     !.expected = IF flagName \in DOMAIN issued
                                  THEN issued[flagName] ELSE Undefined,
                     !.read = TRUE]

\* a call of active that is over
Done(c, answer, out, checkCalls) ==
    [c EXCEPT !.state = "done", !.answer = answer, !.out = out,
              !.checkCalls = checkCalls]

\* active up to its first await: a name in the definitions is answered by
\* its definition, and a name that is not is looked up in the store, or
\* unknown when there is no store
activeStart(flagName, context) ==
    IF flagName \notin DOMAIN featureMap /\ hasStore /\ driver \in DatabaseDrivers
    THEN Reading(flagName, context)
    ELSE Done([Reading(flagName, context)
                 EXCEPT !.registered = flagName \in DOMAIN featureMap,
                        !.read = active(flagName, context).storeReads # {}],
              IF active(flagName, context).storeReads # {}
              THEN storeGet(flagName) ELSE Void,
              active(flagName, context).out,
              active(flagName, context).checkCalls)

\* active that looks at the definitions again once the store has answered
activeResumeLooksAgain(c, answer) ==
    IF c.name \in DOMAIN featureMap /\ featureMap[c.name] # Undefined
    THEN Done(c, answer, Await(check(featureMap[c.name], c.context)),
              <<<<c.name, c.context>>>>)
    ELSE Done(c, answer,
              IF answer.kind # "void" THEN answer
              ELSE FeatureNotExistsError(NotDefinedMessage(c.name)),
              <<>>)

\* active after await this.store.get(flagName): the answer when it is not
\* undefined, not-found when it is, and the store's error when it failed
activeResume(c, answer) ==
    Done(c, answer,
         IF answer.kind # "void" THEN answer
         ELSE FeatureNotExistsError(NotDefinedMessage(c.name)),
         <<>>)

----------------------------------------------------------------------------
(* FanionService *)

\* Set.add that moves a name that is added again to the end
RECURSIVE SetAddMoves(_, _)
SetAddMoves(s, x) ==
    IF s = <<>> THEN <<x>>
    ELSE IF Head(s) = x THEN SetAddMoves(Tail(s), x)
    ELSE <<Head(s)>> \o SetAddMoves(Tail(s), x)

\* Set.add on a Set, which keeps its insertion order
SetAdd(s, x) == IF x \in Range(s) THEN s ELSE Append(s, x)

\* !actualContext: the contexts that are falsy
Falsy(context) == context \in {Undefined, Zero}

\* what a call that registers a flag leaves behind: its outcome, the
\* featureMap, the storage and the definedFlags afterwards
Registered(out, fm, st, flags) ==
    [out |-> out, featureMap |-> fm, storage |-> st, definedFlags |-> flags]

\* FanionService.define(name, check)
serviceDefine(name, chk) ==
    Registered(Void, define(name, chk), storage, SetAdd(definedFlags, name))

\* an optional boolean of a definition object: omitted, true or false
OptionalBooleans == {Undefined, "true", "false"}

\* destructuring with a default: { x = dflt }
OrDefault(x, dflt) == IF x = Undefined THEN dflt ELSE x = "true"

\* the definition objects handed to defineFromDefinition
Definitions == [name : Names, check : {Undefined, "alwaysFalse"},
                defaultValue : OptionalBooleans, store : OptionalBooleans]

NoDefinition == [name |-> Undefined, check |-> Undefined,
                 defaultValue |-> Undefined, store |-> Undefined]

\* no defineAndStore of the service under way: where the call stands, the
\* method of the service that was called, the name and the value, the
\* definition object it came with, and what the manager's defineAndStore
\* ended with
NoStoring ==
    [state |-> "idle", via |-> "none", name |-> Undefined, value |-> FALSE,
     definition |-> NoDefinition, out |-> Void]

\* FanionService.defineAndStore(name, defaultValue) up to its await: the
\* manager's defineAndStore has been called and has handed the value to the
\* store
serviceDefineAndStoreStart(via, name, defaultValue) ==
    [NoStoring EXCEPT !.state = "storing", !.via = via, !.name = name,
                      !.value = defaultValue,
                      !.out = defineAndStore(name, defaultValue).out]

\* FanionService.defineAndStore that does not track the name
serviceDefineAndStoreUntracked(c) == definedFlags

\* FanionService.defineAndStore after its await: the definedFlags
\* afterwards.  The name is tracked once the manager's defineAndStore has
\* completed, and is not when it failed
serviceDefineAndStore(c) ==
    IF c.out.kind = "throw" THEN definedFlags ELSE SetAdd(definedFlags, c.name)

\* FanionService.defineFromDefinition(definition): the destructuring of the
\* definition and the branch it takes, to defineAndStore when the definition
\* asks for the store and the service has one, to define otherwise
defineFromDefinition(definition) ==
    [stored |-> OrDefault(definition.store, FALSE) /\ hasStore,
     name |-> definition.name,
     check |-> definition.check,
     defaultValue |-> OrDefault(definition.defaultValue, TRUE)]

\* FanionService.getDefinedFlags(): Array.from(this.definedFlags)
getDefinedFlags == definedFlags

\* FanionService.active whose catch block throws an error of its own
serviceActiveWraps(name, context) ==
    IF Falsy(context) /\ defaultContextProvider # Undefined
    THEN IF callProvider(defaultContextProvider).out.kind = "throw"
         THEN Result(Throw("Error", <<"Error checking feature flag">>), {}, <<>>, 1)
         ELSE [active(name, callProvider(defaultContextProvider).context)
                 EXCEPT !.providerCalls = 1,
                        !.out = IF @.kind = "throw"
                                THEN Throw("Error", <<"Error checking feature flag">>)
                                ELSE @]
    ELSE [active(name, context)
            EXCEPT !.out = IF @.kind = "throw"
                           THEN Throw("Error", <<"Error checking feature flag">>)
                           ELSE @]

\* FanionService.active(name, context)
serviceActive(name, context) ==
    IF Falsy(context) /\ defaultContextProvider # Undefined
    THEN IF callProvider(defaultContextProvider).out.kind = "throw"
         THEN Result(callProvider(defaultContextProvider).out, {}, <<>>, 1)
         ELSE [active(name, callProvider(defaultContextProvider).context)
                 EXCEPT !.providerCalls = 1]
    ELSE active(name, context)

\* the promise without its try/catch: a failed evaluation rejects it
checkedFlagNoCatch(flag, r) ==
    IF r.out.kind = "throw"
    THEN [kind |-> "rejected", flag |-> flag, isActive |-> Return(FALSE), reason |-> r.out]
    ELSE [kind |-> "fulfilled", flag |-> flag, isActive |-> r.out, reason |-> Void]

\* one promise of activeMany: the evaluation r of flag, its failure caught.
\* isActive is what active resolved with, a boolean or undefined, and false
\* when it failed
checkedFlag(flag, r) ==
    IF r.out.kind = "throw"
    THEN [kind |-> "fulfilled", flag |-> flag, isActive |-> Return(FALSE), reason |-> Void]
    ELSE [kind |-> "fulfilled", flag |-> flag, isActive |-> r.out, reason |-> Void]

\* the loop keeping the first value assigned to a flag, and stopping at the
\* first flag that is off
RECURSIVE assignResultsUntilOff(_, _, _)
assignResultsUntilOff(results, resolvedResults, i) ==
    IF i > Len(resolvedResults) THEN results
    ELSE IF resolvedResults[i].isActive # Return(TRUE)
    THEN MapSet(results, resolvedResults[i].flag, resolvedResults[i].isActive)
    ELSE assignResultsUntilOff(MapSet(results, resolvedResults[i].flag, Return(TRUE)),
                               resolvedResults, i + 1)

\* the loop that assigns results[flag] = isActive over the resolved promises
RECURSIVE assignResults(_, _, _)
assignResults(results, resolvedResults, i) ==
    IF i > Len(resolvedResults) THEN results
    ELSE assignResults(MapSet(results, resolvedResults[i].flag, resolvedResults[i].isActive),
                       resolvedResults, i + 1)

\* the mapping activeMany resolves with
Mapping == [kind |-> "mapping", value |-> FALSE, error |-> "none", message |-> <<>>]

\* no call of activeMany under way: where the call stands, its arguments,
\* the callbacks of flags.map, the order in which their promises settled,
\* the definitions made since the call, its outcome and the mapping
NoMany == [state |-> "idle", flags |-> <<>>, context |-> Undefined,
           evals |-> <<>>, order |-> <<>>, defines |-> 0, out |-> Void,
           results |-> EmptyMap]

\* one callback of flags.map, not yet called: its flag, where its call of
\* active stands, the context handed to the manager, the calls of the
\* default context provider, the call of the manager's active, what active
\* ended with, and the promise of the callback once it has settled
Evaluating(flag) ==
    [flag |-> flag, state |-> "idle", context |-> Undefined, providerCalls |-> 0,
     call |-> NoActive, out |-> Pending, settled |-> FALSE,
     promise |-> [kind |-> "pending", flag |-> flag, isActive |-> Void, reason |-> Void]]

\* FanionService.active(name, context) up to its first await: with a falsy
\* context and a default context provider it calls the provider and waits
\* for the context; otherwise it calls the manager's active, which runs up
\* to its own first await
serviceActiveStart(e, context) ==
    IF Falsy(context) /\ defaultContextProvider # Undefined
    THEN [e EXCEPT !.state = "context", !.providerCalls = 1]
    ELSE [e EXCEPT !.state = "active", !.context = context,
                   !.call = activeStart(e.flag, context)]

\* FanionService.active once the default context provider has answered: its
\* failure ends the call, and its context is handed to the manager's active
serviceActiveProvided(e) ==
    IF callProvider(defaultContextProvider).out.kind = "throw"
    THEN [e EXCEPT !.state = "failed", !.out = callProvider(defaultContextProvider).out]
    ELSE [e EXCEPT !.state = "active",
                   !.context = callProvider(defaultContextProvider).context,
                   !.call = activeStart(e.flag, callProvider(defaultContextProvider).context)]

\* what FanionService.active ends with for callback e: the failure of the
\* provider, or what the manager's active ends with, after the answer of
\* the store when it waits for one
serviceActiveReturn(e, answer) ==
    CASE e.state = "failed" -> e.out
      [] e.call.state = "reading" -> activeResume(e.call, answer).out
      [] OTHER -> e.call.out

\* a loop that awaits each evaluation before it starts the next
startFirst(flags, context) ==
    [i \in 1..Len(flags) |->
       IF i = 1 THEN serviceActiveStart(Evaluating(flags[i]), context)
       ELSE Evaluating(flags[i])]

\* flags.map(async (flag) => ...): every callback is called, and runs up to
\* its first await, before Promise.all is handed the promises
startAll(flags, context) ==
    [i \in 1..Len(flags) |-> serviceActiveStart(Evaluating(flags[i]), context)]

\* the promise of one callback settles: with what active resolved with, or
\* with false when it failed
settled(e, out) ==
    [e EXCEPT !.settled = TRUE, !.out = out,
              !.promise = checkedFlag(e.flag, Result(out, {}, <<>>, e.providerCalls))]

\* a promise of the call has been rejected
rejected(evals) ==
    \E i \in 1..Len(evals) : evals[i].settled /\ evals[i].promise.kind = "rejected"

\* await Promise.all(promises) goes on: every promise is fulfilled, or one
\* of them is rejected
allSettled(evals) ==
    \/ \A i \in 1..Len(evals) : evals[i].settled
    \/ rejected(evals)

\* Promise.all(promises): rejected with the reason of the promise that was
\* rejected first, fulfilled when every promise is
PromiseAll(evals, order) ==
    IF rejected(evals)
    THEN evals[order[CHOOSE k \in 1..Len(order) :
                       /\ evals[order[k]].promise.kind = "rejected"
                       /\ \A j \in 1..(k - 1) :
                            evals[order[j]].promise.kind # "rejected"]].promise.reason
    ELSE Mapping

\* an array that pairs the flag at a position with the value of the promise
\* that settled at that rank
resolvedByArrival(evals, order) ==
    [k \in 1..Len(evals) |->
       [evals[k].promise EXCEPT !.isActive = evals[order[k]].promise.isActive]]

\* the array Promise.all resolves with: the values of the promises in the
\* order of the promises, whatever the order in which they settled
resolvedInOrder(evals, order) ==
    [k \in 1..Len(evals) |-> evals[k].promise]

\* { ctx, user, ip, userAgent, ...additionalContext }: a new object built
\* from ctx, with the fields of additionalContext laid over it.  An omitted
\* additionalContext is {} and the number 0 has no fields to lay over, so
\* both leave the object without isAdmin; a context object hands its
\* isAdmin on
requestContext(additionalContext) ==
    IF additionalContext \in {Undefined, Zero, Request} THEN Request
    ELSE additionalContext

\* FanionService.activeForRequest(name, ctx, additionalContext): the
\* context handed to active is the object built for the request, which is
\* truthy whatever the additional context, so that the default context
\* provider is never asked.  Without an isAdmin asyncIsAdmin resolves
\* undefined, and so does the call
activeForRequest(name, additionalContext) ==
    serviceActive(name, requestContext(additionalContext))

----------------------------------------------------------------------------
(* FanionMiddleware *)

\* options.onDisabled: omitted, one of its four actions, or another string
OnDisabled == {Undefined, "next", "abort", "redirect", "custom", "unknown"}

\* options.customHandler: omitted, a handler that returns a response, one
\* that returns nothing, and one that throws
CustomHandlers == {Undefined, "respond", "silent", "failing"}

\* options.contextProvider: omitted, a provider of a context object, one
\* that fails, and one that returns the number 0
RouteProviders == Providers \cup {"zeroProvider"}

\* the options of a route
MiddlewareOptions ==
    [flag : Names, contextProvider : RouteProviders, onDisabled : OnDisabled,
     redirectTo : {Undefined, "/maintenance"}, customHandler : CustomHandlers]

\* what ctx.response.notFound and ctx.response.redirect return: a value
\* (the mock contexts of the tests) or nothing
ResponseReturns == {"value", Undefined}

ResolveError == Throw("Error", <<"Service not found">>)

RedirectToRequired ==
    Throw("Error", <<"redirectTo option is required when onDisabled is \"redirect\"">>)

CustomHandlerRequired ==
    Throw("Error", <<"customHandler option is required when onDisabled is \"custom\"">>)

UnknownAction(action) == Throw("Error", <<"Unknown onDisabled action: ", action>>)

CustomHandlerError == Throw("Error", <<"Custom handler error">>)

\* handle resolved with what the disabled feature was answered with
Responded == [kind |-> "response", value |-> FALSE, error |-> "none", message |-> <<>>]

\* a call of handle: its outcome, the value it resolves with, and the calls
\* it made of next, of the response methods and of the custom handler
Handled(out, result, nextCalls, responseCalls, customCalls) ==
    [out |-> out, result |-> result, nextCalls |-> nextCalls,
     responseCalls |-> responseCalls, customCalls |-> customCalls]

\* handleDisabledFeature(ctx, options)
handleDisabledFeature(options, responseReturns) ==
    LET action == IF options.onDisabled = Undefined THEN "abort" ELSE options.onDisabled
    IN  CASE action = "next" -> Handled(Void, Undefined, 0, <<>>, 0)
          [] action = "abort" ->
               Handled(Void, IF responseReturns = Undefined THEN Undefined ELSE "notFound",
                       0, <<"notFound">>, 0)
          [] action = "redirect" ->
               IF options.redirectTo = Undefined
               THEN Handled(RedirectToRequired, Undefined, 0, <<>>, 0)
               ELSE Handled(Void, IF responseReturns = Undefined THEN Undefined ELSE "redirect",
                            0, <<"redirect">>, 0)
          [] action = "custom" ->
               CASE options.customHandler = Undefined ->
                      Handled(CustomHandlerRequired, Undefined, 0, <<>>, 0)
                 [] options.customHandler = "failing" ->
                      Handled(CustomHandlerError, Undefined, 0, <<>>, 1)
                 [] options.customHandler = "silent" ->
                      Handled(Void, Undefined, 0, <<>>, 1)
                 [] OTHER -> Handled(Void, "custom", 0, <<>>, 1)
          [] OTHER -> Handled(UnknownAction(action), Undefined, 0, <<>>, 0)

\* the rest of handle once the flag is known to be off: a result that is
\* undefined continues to next
continueOrRespond(d) ==
    IF d.out.kind = "throw" THEN d
    ELSE IF d.result = Undefined
    THEN [d EXCEPT !.nextCalls = 1]
    ELSE [d EXCEPT !.out = Responded]

\* a request on its way through handle: where the call stands, the options
\* of its route, whether the container resolved the service, what the
\* response methods return, the additional context of its route, what the
\* evaluation of its flag ended with, what handle ended with, the value it
\* resolves with, and the calls made so far of next, of the response methods
\* and of the custom handler
NoRequest ==
    [state |-> "idle",
     options |-> [flag |-> Undefined, contextProvider |-> Undefined,
                  onDisabled |-> Undefined, redirectTo |-> Undefined,
                  customHandler |-> Undefined],
     resolves |-> TRUE, responseReturns |-> Undefined,
     context |-> Undefined, isActive |-> Void,
     out |-> Void, result |-> Undefined, nextCalls |-> 0,
     responseCalls |-> <<>>, customCalls |-> 0]

\* handle of request r is over, with what h says
returned(r, h) ==
    [r EXCEPT !.state = "done", !.out = h.out, !.result = h.result,
              !.nextCalls = h.nextCalls, !.responseCalls = h.responseCalls,
              !.customCalls = h.customCalls]

\* fanion.activeForRequest(options.flag, ctx, context) is called: the
\* service looks the flag up in its definitions and calls its evaluator,
\* and handle waits for what the evaluation ends with
evaluating(r, context) ==
    [r EXCEPT !.state = "evaluating", !.context = context,
              !.isActive = activeForRequest(r.options.flag, context).out]

\* FanionMiddleware.handle(ctx, next, options) is called, and waits for
\* ctx.containerResolver.make('fanion')
handleCalled(options) == [NoRequest EXCEPT !.state = "resolving", !.options = options]

\* handle once the container has answered: without the service it fails;
\* with it the context provider of the route is called and waited for, and
\* a route without one has its flag evaluated with no additional context
handleResolved(r, resolves) ==
    IF ~resolves
    THEN returned([r EXCEPT !.resolves = FALSE],
                  Handled(ResolveError, Undefined, 0, <<>>, 0))
    ELSE IF r.options.contextProvider # Undefined
    THEN [r EXCEPT !.state = "providing"]
    ELSE evaluating(r, Undefined)

\* handle once the context provider of the route has answered: its failure
\* ends the call, and its context goes into the evaluation of the flag
handleProvided(r) ==
    IF callProvider(r.options.contextProvider).out.kind = "throw"
    THEN returned(r, Handled(callProvider(r.options.contextProvider).out,
                             Undefined, 0, <<>>, 0))
    ELSE evaluating(r, callProvider(r.options.contextProvider).context)

\* handle that takes a failed evaluation for a flag that is off
handleEvaluatedCatches(r, responseReturns) ==
    IF r.isActive.kind # "throw" /\ r.isActive.value
    THEN returned(r, Handled(Void, Undefined, 1, <<>>, 0))
    ELSE [returned([r EXCEPT !.responseReturns = responseReturns],
                   handleDisabledFeature(r.options, responseReturns))
            EXCEPT !.state = "disabled"]

\* handle once the evaluation has ended: its failure ends the call, a flag
\* that is on has next called, and for a flag that is off
\* handleDisabledFeature is called and waited for, which has called the
\* response method or the custom handler by then
handleEvaluated(r, responseReturns) ==
    IF r.isActive.kind = "throw"
    THEN returned(r, Handled(r.isActive, Undefined, 0, <<>>, 0))
    ELSE IF r.isActive.value
    THEN returned(r, Handled(Void, Undefined, 1, <<>>, 0))
    ELSE [returned([r EXCEPT !.responseReturns = responseReturns],
                   handleDisabledFeature(r.options, responseReturns))
            EXCEPT !.state = "disabled"]

\* handle once handleDisabledFeature has ended: its failure ends the call,
\* a result that is undefined has next called, any other is returned
handleDisabled(r) ==
    returned(r, continueOrRespond(Handled(r.out, r.result, r.nextCalls,
                                          r.responseCalls, r.customCalls)))

----------------------------------------------------------------------------
(* ABTesting *)

\* largest magnitude of a numeric identifier
MaxId == 120

\* longest string identifier
MaxLen == 3

\* the modulus of percentageRollout, and the largest percentage
Hundred == 100

\* identifiers: numbers, negative ones included, and strings
Number(n) == [string |-> FALSE, number |-> n, text |-> <<>>]

String(text) == [string |-> TRUE, number |-> 0, text |-> text]

Identifiers ==
    {Number(n) : n \in -MaxId..MaxId}
      \cup {String([i \in 1..k |-> "a"]) : k \in 0..MaxLen}

Percentages == 0..Hundred

\* a % b of JavaScript: the remainder has the sign of a
Remainder(a, b) == IF a >= 0 THEN a % b ELSE -((-a) % b)

\* ABTesting.percentageRollout(identifier, percentage)
percentageRollout(identifier, percentage) ==
    LET id == IF identifier.string THEN Len(identifier.text) ELSE identifier.number
    IN  Remainder(id, Hundred) < percentage

----------------------------------------------------------------------------
(* The record of the most recent call: the operation, the layer it was    *)
(* called on, its arguments, its outcome and what it touched               *)

NoCall == [op |-> "new", layer |-> "none", name |-> Undefined, context |-> Undefined,
           value |-> FALSE, flags |-> <<>>, definition |-> NoDefinition,
           out |-> Void, results |-> EmptyMap,
           storeReads |-> {}, checkCalls |-> <<>>, providerCalls |-> 0,
           init |-> NoInit]

Call(op, layer, name) == [NoCall EXCEPT !.op = op, !.layer = layer, !.name = name]

WithResult(c, r) == [c EXCEPT !.out = r.out, !.storeReads = r.storeReads,
                              !.checkCalls = r.checkCalls,
                              !.providerCalls = r.providerCalls]

\* the history of completed writes: the value written and the operation
Written(value, by) == [value |-> value, by |-> by]

\* no caller initializing the store, and no table made by one
NoInits == [calls |-> [i \in Invocations |-> NoInit], created |-> 0]

\* the layer an entry point of the initialization belongs to
Layer(via) ==
    CASE via \in {"initStore", "featureManagerWithDatabase"} -> "manager"
      [] via \in {"initialize", "createWithDatabase"} -> "service"
      [] OTHER -> "store"

\* the record of a call of the manager's active that is over
Answered(c) ==
    [Call("active", "manager", c.name)
       EXCEPT !.context = c.context, !.out = c.out,
              !.storeReads = IF c.read THEN {c.name} ELSE {},
              !.checkCalls = c.checkCalls]

\* no rollout decided yet
NoRollout == [decided |-> FALSE, identifier |-> Number(0), percentage |-> 0,
              result |-> FALSE]

----------------------------------------------------------------------------
(* Initial states *)

\* no call under way
InitTasks ==
    /\ requests = EmptyBag
    /\ call = NoActive
    /\ issued = EmptyMap
    /\ many = NoMany
    /\ storing = NoStoring
    /\ inits = NoInits

\* the in-memory driver, a service that initializes its store, and neither
\* a request nor a rollout
InitExt ==
    /\ driver = "memory"
    /\ tableExists = TRUE
    /\ autoInit = TRUE
    /\ request = NoRequest
    /\ rollout = NoRollout
    /\ InitTasks

\* a manager of its own: new FeatureManager(config), with or without a store
Init ==
    /\ featureMap = EmptyMap
    /\ hasStore \in BOOLEAN
    /\ storage = EmptyMap
    /\ storeUp = TRUE
    /\ definedFlags = <<>>
    /\ defaultContextProvider = Undefined
    /\ unhandled = {}
    /\ last = NoCall
    /\ defineHistory = EmptyMap
    /\ storeHistory = EmptyMap
    /\ InitExt

\* a service: new FanionService(config), without a store, with the
\* in-memory driver, or with a store whose calls fail
InitService ==
    /\ featureMap = EmptyMap
    /\ hasStore \in BOOLEAN
    /\ storage = EmptyMap
    /\ storeUp \in {TRUE, ~hasStore}
    /\ definedFlags = <<>>
    /\ defaultContextProvider \in Providers
    /\ unhandled = {}
    /\ last = NoCall
    /\ defineHistory = EmptyMap
    /\ storeHistory = EmptyMap
    /\ InitExt

\* a manager on one of the stores, or on none, with nothing defined and
\* nothing stored
Fresh ==
    /\ featureMap = EmptyMap
    /\ hasStore \in BOOLEAN
    /\ driver \in IF hasStore THEN Drivers ELSE {"memory"}
    /\ storage = EmptyMap
    /\ definedFlags = <<>>
    /\ defaultContextProvider = Undefined
    /\ unhandled = {}
    /\ last = NoCall
    /\ defineHistory = EmptyMap
    /\ storeHistory = EmptyMap
    /\ request = NoRequest
    /\ rollout = NoRollout
    /\ InitTasks

\* the stores in use: the table of a database driver is there or is not
InitStores ==
    /\ Fresh
    /\ tableExists \in IF driver \in DatabaseDrivers THEN BOOLEAN ELSE {TRUE}
    /\ storeUp = TRUE
    /\ autoInit = TRUE

\* a registry on a store that is yet to be initialized, whose backend is up
\* or down: the table of a database driver is yet to be created
InitRegistry ==
    /\ Fresh
    /\ tableExists = (driver \notin DatabaseDrivers)
    /\ storeUp \in BOOLEAN
    /\ autoInit = TRUE

\* a manager and a service on a store that is yet to be initialized, the
\* service with or without autoInit
InitSetup ==
    /\ Fresh
    /\ tableExists = (driver \notin DatabaseDrivers)
    /\ storeUp \in BOOLEAN
    /\ autoInit \in BOOLEAN

\* a service as activeMany is called on: without a store, or with a store
\* whose calls fail
InitMany ==
    /\ featureMap = EmptyMap
    /\ hasStore \in BOOLEAN
    /\ storage = EmptyMap
    /\ storeUp = ~hasStore
    /\ definedFlags = <<>>
    /\ defaultContextProvider \in Providers
    /\ unhandled = {}
    /\ last = NoCall
    /\ defineHistory = EmptyMap
    /\ storeHistory = EmptyMap
    /\ InitExt

----------------------------------------------------------------------------
(* Operations of the FeatureManager *)

Define(flagName, chk) ==
    /\ featureMap' = define(flagName, chk)
    /\ defineHistory' = MapSet(defineHistory, flagName, chk)
    /\ last' = Call("define", "manager", flagName)
    /\ UNCHANGED <<hasStore, storage, storeUp, definedFlags, defaultContextProvider,
                   unhandled, storeHistory, ext>>

DefineAndStore(flagName, defaultValue) ==
    \E r \in {defineAndStore(flagName, defaultValue)} :
        /\ featureMap' = r.featureMap
        /\ storage' = r.storage
        /\ storeHistory' = IF r.out.kind = "void"
                           THEN MapSet(storeHistory, flagName,
                                       Written(defaultValue, "defineAndStore"))
                           ELSE storeHistory
        /\ last' = [Call("defineAndStore", "manager", flagName)
                      EXCEPT !.value = defaultValue, !.out = r.out]
        /\ UNCHANGED <<hasStore, storeUp, definedFlags, defaultContextProvider,
                       unhandled, defineHistory, ext>>

\* the same call on the revision that does not await the store
DefineAndStoreSync(flagName, defaultValue) ==
    \E r \in {defineAndStoreSync(flagName, defaultValue)} :
        /\ featureMap' = r.featureMap
        /\ storage' = r.storage
        /\ unhandled' = unhandled \cup r.unhandled
        /\ storeHistory' = IF r.out.kind = "void" /\ r.unhandled = {}
                           THEN MapSet(storeHistory, flagName,
                                       Written(defaultValue, "defineAndStore"))
                           ELSE storeHistory
        /\ last' = [Call("defineAndStore", "manager", flagName)
                      EXCEPT !.value = defaultValue, !.out = r.out]
        /\ UNCHANGED <<hasStore, storeUp, definedFlags, defaultContextProvider,
                       defineHistory, ext>>

\* active(flagName, context) where the call is over before anything else
\* happens: the definitions and the in-memory driver answer within the call
Active(flagName, context) ==
    /\ activeStart(flagName, context).state = "done"
    /\ last' = WithResult([Call("active", "manager", flagName) EXCEPT !.context = context],
                          active(flagName, context))
    /\ UNCHANGED <<featureMap, hasStore, storage, storeUp, definedFlags,
                   defaultContextProvider, unhandled, defineHistory, storeHistory, ext>>

----------------------------------------------------------------------------
(* Operations of the FanionService *)

ServiceDefine(name, chk) ==
    /\ featureMap' = define(name, chk)
    /\ definedFlags' = SetAdd(definedFlags, name)
    /\ defineHistory' = MapSet(defineHistory, name, chk)
    /\ last' = Call("define", "service", name)
    /\ UNCHANGED <<hasStore, storage, storeUp, defaultContextProvider, unhandled,
                   storeHistory, ext>>

\* defineAndStore(name, defaultValue) of the service is called: the manager's
\* defineAndStore hands the value to the store, and the service waits for it
ServiceDefineAndStore(name, defaultValue) ==
    /\ storing.state = "idle"
    /\ \E r \in {defineAndStore(name, defaultValue)} :
        /\ storing' = serviceDefineAndStoreStart("defineAndStore", name, defaultValue)
        /\ featureMap' = r.featureMap
        /\ storage' = r.storage
    /\ last' = NoCall
    /\ UNCHANGED <<hasStore, storeUp, definedFlags, defaultContextProvider, unhandled,
                   defineHistory, storeHistory, driver, tableExists, autoInit, request,
                   rollout, flight, many, setup>>

\* the manager's defineAndStore has completed or failed: the service tracks
\* the name or hands the failure on, and its call is over, which makes a
\* write that succeeded a completed one
ServiceStored ==
    /\ storing.state = "storing"
    /\ definedFlags' = serviceDefineAndStore(storing)
    /\ storing' = NoStoring
    /\ storeHistory' = IF storing.out.kind = "void"
                       THEN MapSet(storeHistory, storing.name,
                                   Written(storing.value, "defineAndStore"))
                       ELSE storeHistory
    /\ last' = [Call(storing.via, "service", storing.name)
                  EXCEPT !.value = storing.value, !.definition = storing.definition,
                         !.out = storing.out]
    /\ UNCHANGED <<featureMap, hasStore, storage, storeUp, defaultContextProvider,
                   unhandled, defineHistory, driver, tableExists,
                   autoInit, request, rollout, flight, many, setup>>

ServiceActive(name, context) ==
    /\ last' = WithResult([Call("active", "service", name) EXCEPT !.context = context],
                          serviceActive(name, context))
    /\ UNCHANGED <<featureMap, hasStore, storage, storeUp, definedFlags,
                   defaultContextProvider, unhandled, defineHistory, storeHistory, ext>>

\* defineFromDefinition(definition) is called: a definition that goes to the
\* store waits for defineAndStore, any other is defined within the call
ServiceDefineFromDefinition(definition) ==
    \E d \in {defineFromDefinition(definition)} :
        IF d.stored
        THEN /\ storing.state = "idle"
             /\ \E r \in {defineAndStore(d.name, d.defaultValue)} :
                 /\ storing' = [serviceDefineAndStoreStart("defineFromDefinition",
                                                           d.name, d.defaultValue)
                                  EXCEPT !.definition = definition]
                 /\ featureMap' = r.featureMap
                 /\ storage' = r.storage
             /\ last' = NoCall
             /\ UNCHANGED <<hasStore, storeUp, definedFlags, defaultContextProvider,
                            unhandled, defineHistory, storeHistory, driver, tableExists,
                            autoInit, request, rollout, flight, many, setup>>
        ELSE /\ featureMap' = define(d.name, d.check)
             /\ definedFlags' = SetAdd(definedFlags, d.name)
             /\ defineHistory' = MapSet(defineHistory, d.name, d.check)
             /\ last' = [Call("defineFromDefinition", "service", d.name)
                           EXCEPT !.definition = definition]
             /\ UNCHANGED <<hasStore, storage, storeUp, defaultContextProvider,
                            unhandled, storeHistory, ext>>

GetDefinedFlags ==
    /\ last' = [Call("getDefinedFlags", "service", Undefined)
                  EXCEPT !.flags = getDefinedFlags]
    /\ UNCHANGED <<featureMap, hasStore, storage, storeUp, definedFlags,
                   defaultContextProvider, unhandled, defineHistory, storeHistory, ext>>

----------------------------------------------------------------------------
(* The storage provider used directly, and its backend going down and up *)

StoreSet(flag, value) ==
    /\ hasStore
    /\ \E r \in {storeSet(flag, value)} :
        /\ storage' = r.storage
        /\ storeHistory' = IF r.out.kind = "void"
                           THEN MapSet(storeHistory, flag, Written(value, "set"))
                           ELSE storeHistory
        /\ last' = [Call("set", "store", flag) EXCEPT !.value = value, !.out = r.out]
    /\ UNCHANGED <<featureMap, hasStore, storeUp, definedFlags, defaultContextProvider,
                   unhandled, defineHistory, ext>>

StoreDelete(featureName) ==
    /\ hasStore
    /\ \E r \in {storeDelete(featureName)} :
        /\ storage' = r.storage
        /\ storeHistory' = IF r.out.kind \in {"void", "number"}
                           THEN MapDelete(storeHistory, featureName)
                           ELSE storeHistory
        /\ last' = [Call("delete", "store", featureName) EXCEPT !.out = r.out]
    /\ UNCHANGED <<featureMap, hasStore, storeUp, definedFlags, defaultContextProvider,
                   unhandled, defineHistory, ext>>

StoreOutage ==
    /\ hasStore
    /\ storeUp' = ~storeUp
    /\ last' = NoCall
    /\ UNCHANGED <<featureMap, hasStore, storage, definedFlags, defaultContextProvider,
                   unhandled, defineHistory, storeHistory, ext>>

StoreGet(flag) ==
    /\ hasStore
    /\ last' = [Call("get", "store", flag) EXCEPT !.out = storeGet(flag)]
    /\ UNCHANGED <<featureMap, hasStore, storage, storeUp, definedFlags,
                   defaultContextProvider, unhandled, defineHistory, storeHistory, ext>>

\* the backend of a driver that has one going down and up
BackendOutage ==
    /\ driver # "memory"
    /\ StoreOutage

----------------------------------------------------------------------------
(* Initialization of the store *)

\* the call of caller i goes on to c: a table its create statement made is
\* there, the manager or the service the call resolves with replaces the
\* one in use, and a call that is over is the most recent one, which leaves
\* its caller free for the next
Proceed(i, c) ==
    /\ inits' = [inits EXCEPT
                   !.calls[i] = IF c.state = "done" THEN NoInit ELSE c,
                   !.created = IF c.created /\ ~inits.calls[i].created THEN @ + 1 ELSE @]
    /\ tableExists' = (tableExists \/ (c.created /\ ~inits.calls[i].created))
    /\ featureMap' = IF c.state = "done" /\ c.out.kind \in {"manager", "service"}
                     THEN EmptyMap ELSE featureMap
    /\ defineHistory' = IF c.state = "done" /\ c.out.kind \in {"manager", "service"}
                        THEN EmptyMap ELSE defineHistory
    /\ definedFlags' = IF c.state = "done" /\ c.out.kind = "service"
                       THEN <<>> ELSE definedFlags
    /\ last' = IF c.state = "done"
               THEN [Call(c.via, Layer(c.via), Undefined)
                       EXCEPT !.out = c.out, !.init = c]
               ELSE NoCall
    /\ UNCHANGED <<hasStore, storage, storeUp, defaultContextProvider, unhandled,
                   storeHistory, driver, autoInit, request, rollout, flight, joins>>

\* caller i calls the entry point via
Enter(i, via) ==
    /\ inits.calls[i].state = "idle"
    /\ Proceed(i, called(via))

\* manager.initStore()
InitStore(i) == Enter(i, "initStore")

\* featureManagerWithDatabase({store})
FeatureManagerWithDatabase(i) ==
    /\ hasStore
    /\ Enter(i, "featureManagerWithDatabase")

\* FanionService.initialize()
ServiceInitialize(i) == Enter(i, "initialize")

\* FanionService.createWithDatabase(config), or
\* createFanionServiceWithDatabase(config)
CreateWithDatabase(i) == Enter(i, "createWithDatabase")

\* createTableIfNotExists() of a database driver
CreateTableIfNotExists(i) ==
    /\ driver \in DatabaseDrivers
    /\ Enter(i, "createTableIfNotExists")

\* the hasTable of caller i is answered
KnexInitChecked(i) ==
    /\ inits.calls[i].state = "checking"
    /\ Proceed(i, knexChecked(inits.calls[i]))

\* the createTable of caller i is executed
KnexInitCreated(i) ==
    /\ driver \in KnexDrivers
    /\ inits.calls[i].state = "creating"
    /\ Proceed(i, knexCreated(inits.calls[i]))

\* the first DescribeTable of caller i is answered
CreateTableDescribed(i) ==
    /\ inits.calls[i].state = "describing"
    /\ Proceed(i, described(inits.calls[i], describeTable))

\* the CreateTable of caller i is answered
CreateTableCreated(i) ==
    /\ driver = "dynamodb"
    /\ inits.calls[i].state = "creating"
    /\ Proceed(i, dynamoCreated(inits.calls[i]))

\* a status call of the waiting loop of caller i is answered: with the
\* status of the table, or with an error when the backend is down
CreateTablePolled(i, status) ==
    /\ inits.calls[i].state = "waiting"
    /\ Proceed(i, waitForTableActive(inits.calls[i],
                                     IF storeUp THEN status ELSE "error"))

----------------------------------------------------------------------------
(* Requests through the middleware *)

\* a service without a store, as the middleware tests build it, without a
\* default context provider or with one that fails when it is asked
InitMiddleware ==
    /\ featureMap = EmptyMap
    /\ hasStore = FALSE
    /\ storage = EmptyMap
    /\ storeUp = TRUE
    /\ definedFlags = <<>>
    /\ defaultContextProvider \in {Undefined, "failingProvider"}
    /\ unhandled = {}
    /\ last = NoCall
    /\ defineHistory = EmptyMap
    /\ storeHistory = EmptyMap
    /\ InitExt

\* a flag is defined on the service, between two requests or while a
\* request is under way
RegisterFlag(name, chk) ==
    /\ featureMap' = serviceDefine(name, chk).featureMap
    /\ definedFlags' = serviceDefine(name, chk).definedFlags
    /\ UNCHANGED <<hasStore, storage, storeUp, defaultContextProvider, unhandled, last,
                   defineHistory, storeHistory, ext>>

\* the request goes on to r
Served(r) ==
    /\ request' = r
    /\ UNCHANGED <<featureMap, hasStore, storage, storeUp, definedFlags,
                   defaultContextProvider, unhandled, last, defineHistory, storeHistory,
                   driver, tableExists, autoInit, rollout, tasks>>

\* a request reaches handle
Handle(options) ==
    /\ request.state = "idle"
    /\ Served(handleCalled(options))

\* the container answers
HandleResolved(resolves) ==
    /\ request.state = "resolving"
    /\ Served(handleResolved(request, resolves))

\* the context provider of the route answers
HandleProvided ==
    /\ request.state = "providing"
    /\ Served(handleProvided(request))

\* the evaluation of the flag ends
HandleEvaluated(responseReturns) ==
    /\ request.state = "evaluating"
    /\ Served(handleEvaluated(request, responseReturns))

\* handleDisabledFeature ends, and the request is answered
HandleDisabled ==
    /\ request.state = "disabled"
    /\ Served(handleDisabled(request))

\* the request is over
RequestDone ==
    /\ request.state = "done"
    /\ Served(NoRequest)

----------------------------------------------------------------------------
(* Rollout decisions *)

\* an identifier and a percentage for which the rollout is to be decided
InitRollout ==
    /\ featureMap = EmptyMap
    /\ hasStore = FALSE
    /\ storage = EmptyMap
    /\ storeUp = TRUE
    /\ definedFlags = <<>>
    /\ defaultContextProvider = Undefined
    /\ unhandled = {}
    /\ last = NoCall
    /\ defineHistory = EmptyMap
    /\ storeHistory = EmptyMap
    /\ driver = "memory"
    /\ tableExists = TRUE
    /\ autoInit = TRUE
    /\ request = NoRequest
    /\ rollout \in [decided : {FALSE}, identifier : Identifiers,
                    percentage : Percentages, result : {FALSE}]
    /\ InitTasks

PercentageRollout ==
    /\ ~rollout.decided
    /\ rollout' = [rollout EXCEPT
                     !.decided = TRUE,
                     !.result = percentageRollout(rollout.identifier, rollout.percentage)]
    /\ UNCHANGED <<featureMap, hasStore, storage, storeUp, definedFlags,
                   defaultContextProvider, unhandled, last, defineHistory, storeHistory,
                   driver, tableExists, autoInit, request, tasks>>

----------------------------------------------------------------------------
(* Calls that overlap *)

\* a manager on the in-memory driver or on a database whose table is there,
\* or on no store
InitInFlight ==
    /\ featureMap = EmptyMap
    /\ hasStore \in BOOLEAN
    /\ driver \in IF hasStore THEN {"memory"} \cup DatabaseDrivers ELSE {"memory"}
    /\ tableExists = TRUE
    /\ storage = EmptyMap
    /\ storeUp = TRUE
    /\ definedFlags = <<>>
    /\ defaultContextProvider = Undefined
    /\ unhandled = {}
    /\ last = NoCall
    /\ defineHistory = EmptyMap
    /\ storeHistory = EmptyMap
    /\ autoInit = TRUE
    /\ request = NoRequest
    /\ rollout = NoRollout
    /\ InitTasks

\* features.defineAndStore(flagName, defaultValue) with its promise dropped:
\* without a store the promise is rejected; with a database the write is on
\* its way, next to the writes that wait already, and the in-memory driver
\* has made its write within the call
DefineAndStoreUnawaited(flagName, defaultValue) ==
    /\ (hasStore /\ driver \in DatabaseDrivers) => BagCardinality(requests) < MaxPending
    /\ IF hasStore
       THEN \E r \in {sendSet(flagName, defaultValue)} :
                /\ storage' = r.storage
                /\ requests' = r.requests
                /\ issued' = MapSet(issued, flagName,
                                    IF defaultValue THEN "true" ELSE "false")
                /\ storeHistory' = IF r.written
                                   THEN MapSet(storeHistory, flagName,
                                               Written(defaultValue, "defineAndStore"))
                                   ELSE storeHistory
                /\ unhandled' = IF r.out.kind = "throw"
                                THEN unhandled \cup {r.out} ELSE unhandled
       ELSE /\ unhandled' = unhandled \cup {NoStoreError}
            /\ UNCHANGED <<storage, requests, issued, storeHistory>>
    /\ UNCHANGED <<featureMap, hasStore, storeUp, definedFlags, defaultContextProvider,
                   last, defineHistory,
                   driver, tableExists, autoInit, request, rollout, call, joins, setup>>

\* the database serves one of the writes it has received: the promise
\* nobody waits for settles, and a failure of the write is left unhandled
ServeSet(w) ==
    /\ BagIn(w, requests)
    /\ storage' = storeSet(w.flag, w.value).storage
    /\ requests' = requests (-) SetToBag({w})
    /\ storeHistory' = IF storeSet(w.flag, w.value).out.kind # "throw"
                       THEN MapSet(storeHistory, w.flag,
                                   Written(w.value, "defineAndStore"))
                       ELSE storeHistory
    /\ unhandled' = IF storeSet(w.flag, w.value).out.kind = "throw"
                    THEN unhandled \cup {storeSet(w.flag, w.value).out} ELSE unhandled
    /\ UNCHANGED <<featureMap, hasStore, storeUp, definedFlags, defaultContextProvider,
                   last, defineHistory,
                   driver, tableExists, autoInit, request, rollout, call, issued, joins, setup>>

\* features.active(flagName, context) is called, and runs up to its first
\* await
ActiveStart(flagName, context) ==
    /\ call.state # "reading"
    /\ \E c \in {activeStart(flagName, context)} :
        /\ call' = c
        /\ last' = IF c.state = "done" THEN Answered(c) ELSE NoCall
    /\ UNCHANGED <<featureMap, hasStore, storage, storeUp, definedFlags,
                   defaultContextProvider, unhandled, defineHistory, storeHistory,
                   driver, tableExists, autoInit, request, rollout, requests, issued,
                   joins, setup>>

\* the database answers the read of the call that waits, and the call ends
ActiveResume ==
    /\ call.state = "reading"
    /\ \E c \in {activeResume(call, storeGet(call.name))} :
        /\ call' = c
        /\ last' = Answered(c)
    /\ UNCHANGED <<featureMap, hasStore, storage, storeUp, definedFlags,
                   defaultContextProvider, unhandled, defineHistory, storeHistory,
                   driver, tableExists, autoInit, request, rollout, requests, issued,
                   joins, setup>>

----------------------------------------------------------------------------
(* activeMany and the evaluations it waits for *)

\* a flag is defined on the service, also while activeMany is under way:
\* the call remembers that the definitions have changed since it started
ManyDefine(name, chk) ==
    /\ featureMap' = define(name, chk)
    /\ definedFlags' = SetAdd(definedFlags, name)
    /\ defineHistory' = MapSet(defineHistory, name, chk)
    /\ many' = IF many.state # "idle" /\ define(name, chk) # featureMap
               THEN [many EXCEPT !.defines = 1] ELSE many
    /\ UNCHANGED <<hasStore, storage, storeUp, defaultContextProvider, unhandled,
                   last, storeHistory, driver, tableExists, autoInit, request, rollout,
                   flight, storing, setup>>

\* activeMany(flags, context) is called: every callback is called
ManyStart(flags, context) ==
    /\ many.state = "idle"
    /\ many' = [NoMany EXCEPT !.state = "waiting", !.flags = flags,
                              !.context = context,
                              !.evals = startAll(flags, context)]
    /\ UNCHANGED <<featureMap, hasStore, storage, storeUp, definedFlags,
                   defaultContextProvider, unhandled, last, defineHistory, storeHistory,
                   driver, tableExists, autoInit, request, rollout, flight, storing,
                   setup>>

\* the default context provider answers the callback at position i, whose
\* call of active goes on to the manager
ManyProvided(i) ==
    /\ many.state = "waiting"
    /\ i \in 1..Len(many.evals)
    /\ many.evals[i].state = "context"
    /\ many' = [many EXCEPT !.evals[i] = serviceActiveProvided(many.evals[i])]
    /\ UNCHANGED <<featureMap, hasStore, storage, storeUp, definedFlags,
                   defaultContextProvider, unhandled, last, defineHistory, storeHistory,
                   driver, tableExists, autoInit, request, rollout, flight, storing,
                   setup>>

\* the evaluation at position i completes or fails, which settles the
\* promise of its callback; an evaluation that never completes never does
ManySettle(i) ==
    /\ many.state = "waiting"
    /\ i \in 1..Len(many.evals)
    /\ many.evals[i].state \in {"active", "failed"}
    /\ ~many.evals[i].settled
    /\ \E out \in {serviceActiveReturn(many.evals[i], storeGet(many.flags[i]))} :
         /\ out.kind # "pending"
         /\ many' = [many EXCEPT !.evals[i] = settled(many.evals[i], out),
                                 !.order = Append(many.order, i)]
    /\ UNCHANGED <<featureMap, hasStore, storage, storeUp, definedFlags,
                   defaultContextProvider, unhandled, last, defineHistory, storeHistory,
                   driver, tableExists, autoInit, request, rollout, flight, storing,
                   setup>>

\* Promise.all settles, the results are assigned and activeMany returns, or
\* throws what Promise.all was rejected with
ManyReturn ==
    /\ many.state = "waiting"
    /\ allSettled(many.evals)
    /\ many' = [many EXCEPT
                  !.state = "returned",
                  !.out = PromiseAll(many.evals, many.order),
                  !.results = IF PromiseAll(many.evals, many.order) = Mapping
                              THEN assignResults(EmptyMap,
                                                 resolvedInOrder(many.evals, many.order), 1)
                              ELSE EmptyMap]
    /\ UNCHANGED <<featureMap, hasStore, storage, storeUp, definedFlags,
                   defaultContextProvider, unhandled, last, defineHistory, storeHistory,
                   driver, tableExists, autoInit, request, rollout, flight, storing,
                   setup>>

\* the caller has taken the mapping
ManyDone ==
    /\ many.state = "returned"
    /\ many' = NoMany
    /\ UNCHANGED <<featureMap, hasStore, storage, storeUp, definedFlags,
                   defaultContextProvider, unhandled, last, defineHistory, storeHistory,
                   driver, tableExists, autoInit, request, rollout, flight, storing,
                   setup>>

----------------------------------------------------------------------------
(* The DynamoDB driver creating its table, from calls that overlap *)

\* a DynamoDB driver, on a backend with or without the table
InitDynamo ==
    /\ featureMap = EmptyMap
    /\ hasStore = TRUE
    /\ driver = "dynamodb"
    /\ tableExists \in BOOLEAN
    /\ storage = EmptyMap
    /\ storeUp = TRUE
    /\ definedFlags = <<>>
    /\ defaultContextProvider = Undefined
    /\ unhandled = {}
    /\ last = NoCall
    /\ defineHistory = EmptyMap
    /\ storeHistory = EmptyMap
    /\ autoInit = TRUE
    /\ request = NoRequest
    /\ rollout = NoRollout
    /\ InitTasks

----------------------------------------------------------------------------
(* The Knex driver creating its table, from calls that overlap *)

\* a Knex driver on a database without the table, and callers that are
\* about to initialize the store
InitKnex ==
    /\ featureMap = EmptyMap
    /\ hasStore = TRUE
    /\ driver \in KnexDrivers
    /\ tableExists = FALSE
    /\ storage = EmptyMap
    /\ storeUp = TRUE
    /\ definedFlags = <<>>
    /\ defaultContextProvider = Undefined
    /\ unhandled = {}
    /\ last = NoCall
    /\ defineHistory = EmptyMap
    /\ storeHistory = EmptyMap
    /\ autoInit = TRUE
    /\ request = NoRequest
    /\ rollout = NoRollout
    /\ InitTasks

----------------------------------------------------------------------------
(* Specifications *)

\* the fanion package: a FeatureManager and its storage provider
Next ==
    \/ \E n \in Names, chk \in Checks \cup {Undefined} : Define(n, chk)
    \/ \E n \in Names, v \in BOOLEAN : DefineAndStore(n, v)
    \/ \E n \in Names, c \in Contexts : Active(n, c)
    \/ \E n \in Names, v \in BOOLEAN : StoreSet(n, v)
    \/ \E n \in Names : StoreDelete(n)
    \/ StoreOutage

Spec == Init /\ [][Next]_vars

\* the fanion package with the FeatureManager revision whose defineAndStore
\* does not await the store
NextFeatureTs ==
    \/ \E n \in Names, chk \in Checks \cup {Undefined} : Define(n, chk)
    \/ \E n \in Names, v \in BOOLEAN : DefineAndStoreSync(n, v)
    \/ \E n \in Names, c \in Contexts : Active(n, c)
    \/ \E n \in Names, v \in BOOLEAN : StoreSet(n, v)
    \/ \E n \in Names : StoreDelete(n)
    \/ StoreOutage

SpecFeatureTs == Init /\ [][NextFeatureTs]_vars

\* the adonisjs-fanion package: a FanionService and the manager it wraps
NextService ==
    \/ \E n \in Names, chk \in Checks \cup {Undefined} : ServiceDefine(n, chk)
    \/ \E n \in Names, v \in BOOLEAN : ServiceDefineAndStore(n, v)
    \/ \E n \in Names, c \in Contexts : ServiceActive(n, c)
    \/ \E n \in Names, c \in Contexts : Active(n, c)
    \/ ServiceStored

SpecService == InitService /\ [][NextService]_vars

\* the fanion package: the life of a registry on each of the storage
\* drivers, on a backend that is up or down; a table that is created is
\* active when its status is first asked
NextRegistry ==
    \/ \E n \in Names : Define(n, "alwaysFalse")
    \/ \E n \in Names, v \in BOOLEAN : DefineAndStore(n, v)
    \/ \E n \in Names : ActiveStart(n, Undefined)
    \/ ActiveResume
    \/ \E i \in Invocations : InitStore(i)
    \/ \E i \in Invocations : KnexInitChecked(i)
    \/ \E i \in Invocations : KnexInitCreated(i)
    \/ \E i \in Invocations : CreateTableDescribed(i)
    \/ \E i \in Invocations : CreateTableCreated(i)
    \/ \E i \in Invocations : CreateTablePolled(i, "ACTIVE")
    \/ \E n \in Names, v \in BOOLEAN : StoreSet(n, v)
    \/ \E n \in Names : StoreDelete(n)

SpecRegistry == InitRegistry /\ [][NextRegistry]_vars

\* the adonisjs-fanion package: activeMany and its evaluations, which
\* settle in any order
NextMany ==
    \/ \E n \in Names, chk \in {"asyncIsAdmin", "boom", Never} :
         ManyDefine(n, chk)
    \/ \E flags \in FlagLists, c \in {Undefined, "admin", Zero} : ManyStart(flags, c)
    \/ \E i \in 1..MaxFlags : ManyProvided(i)
    \/ \E i \in 1..MaxFlags : ManySettle(i)
    \/ ManyReturn
    \/ ManyDone

SpecMany == InitMany /\ [][NextMany]_vars

\* every evaluation that can settle does, and a join that can return does
SpecManyFair ==
    /\ SpecMany
    /\ \A i \in 1..MaxFlags : WF_vars(ManyProvided(i))
    /\ \A i \in 1..MaxFlags : WF_vars(ManySettle(i))
    /\ WF_vars(ManyReturn)

\* the fanion package: the DynamoDB driver creating its table, step by
\* step, on a backend that goes down and up; every command it sends is
\* answered
NextDynamo ==
    \/ \E i \in Invocations : CreateTableIfNotExists(i)
    \/ \E i \in Invocations : CreateTableDescribed(i)
    \/ \E i \in Invocations : CreateTableCreated(i)
    \/ \E i \in Invocations, status \in {"CREATING", "ACTIVE"} :
         CreateTablePolled(i, status)
    \/ BackendOutage

SpecDynamo ==
    /\ InitDynamo
    /\ [][NextDynamo]_vars
    /\ \A i \in Invocations : WF_vars(CreateTableDescribed(i))
    /\ \A i \in Invocations : WF_vars(CreateTableCreated(i))
    /\ \A i \in Invocations :
         WF_vars(\E status \in {"CREATING", "ACTIVE"} : CreateTablePolled(i, status))

\* the fanion package: callers that initialize a Knex store one after the
\* other or at the same time, and flags written to the table
NextKnex ==
    \/ \E i \in Invocations : CreateTableIfNotExists(i)
    \/ \E i \in Invocations : InitStore(i)
    \/ \E i \in Invocations : KnexInitChecked(i)
    \/ \E i \in Invocations : KnexInitCreated(i)
    \/ \E n \in Names, v \in BOOLEAN : StoreSet(n, v)

SpecKnex == InitKnex /\ [][NextKnex]_vars

\* the fanion package: calls of a manager that overlap
NextInFlight ==
    \/ \E n \in Names, chk \in {Undefined, "asyncIsAdmin"} : Define(n, chk)
    \/ \E n \in Names, v \in BOOLEAN : DefineAndStoreUnawaited(n, v)
    \/ \E w \in BagToSet(requests) : ServeSet(w)
    \/ \E n \in Names, c \in {Undefined, "admin"} : ActiveStart(n, c)
    \/ ActiveResume

SpecInFlight == InitInFlight /\ [][NextInFlight]_vars

\* the adonisjs-fanion package: the contexts handed to a FanionService
NextContexts ==
    \/ \E n \in Names, chk \in Checks \cup {Undefined} : ServiceDefine(n, chk)
    \/ \E n \in Names, c \in ServiceContexts : ServiceActive(n, c)

SpecContexts == InitService /\ [][NextContexts]_vars

\* the adonisjs-fanion package: the flags a FanionService registers
NextDefinitions ==
    \/ \E n \in Names, chk \in {Undefined, "alwaysFalse"} : ServiceDefine(n, chk)
    \/ \E n \in Names, v \in BOOLEAN : ServiceDefineAndStore(n, v)
    \/ \E definition \in Definitions : ServiceDefineFromDefinition(definition)
    \/ ServiceStored
    \/ \E n \in Names : ServiceActive(n, Undefined)
    \/ GetDefinedFlags

SpecDefinitions == InitService /\ [][NextDefinitions]_vars

\* the fanion package: a manager and each of the storage drivers, on a
\* backend that goes down and up
NextStores ==
    \/ \E n \in Names : Define(n, Undefined)
    \/ \E n \in Names : ActiveStart(n, Undefined)
    \/ ActiveResume
    \/ \E n \in Names, v \in BOOLEAN : StoreSet(n, v)
    \/ \E n \in Names : StoreGet(n)
    \/ \E n \in Names : StoreDelete(n)
    \/ BackendOutage

SpecStores == InitStores /\ [][NextStores]_vars

\* a manager and a service on each of the storage drivers, initialized by
\* callers whose calls overlap, on a backend that is up or down; a table
\* that is created is active when its status is first asked
NextSetup ==
    \/ \E i \in Invocations : InitStore(i)
    \/ \E i \in Invocations : FeatureManagerWithDatabase(i)
    \/ \E i \in Invocations : ServiceInitialize(i)
    \/ \E i \in Invocations : CreateWithDatabase(i)
    \/ \E i \in Invocations : KnexInitChecked(i)
    \/ \E i \in Invocations : KnexInitCreated(i)
    \/ \E i \in Invocations : CreateTableDescribed(i)
    \/ \E i \in Invocations : CreateTableCreated(i)
    \/ \E i \in Invocations : CreateTablePolled(i, "ACTIVE")
    \/ \E n \in Names : Define(n, Undefined)
    \/ \E n \in Names : ActiveStart(n, Undefined)
    \/ ActiveResume
    \/ \E n \in Names : StoreSet(n, TRUE)

SpecSetup == InitSetup /\ [][NextSetup]_vars

\* the adonisjs-fanion package: routes protected by the middleware
NextMiddleware ==
    \/ \E n \in Names, chk \in Checks \cup {Undefined} : RegisterFlag(n, chk)
    \/ \E options \in MiddlewareOptions : Handle(options)
    \/ \E resolves \in BOOLEAN : HandleResolved(resolves)
    \/ HandleProvided
    \/ \E responseReturns \in ResponseReturns : HandleEvaluated(responseReturns)
    \/ HandleDisabled
    \/ RequestDone

SpecMiddleware == InitMiddleware /\ [][NextMiddleware]_vars

\* the helpers of the adonisjs-fanion package: a rollout decided
NextRollout == PercentageRollout

SpecRollout == InitRollout /\ [][NextRollout]_vars

----------------------------------------------------------------------------
(* Claims about the FeatureManager *)

\* the most recent call is active(n, c) on the manager
ManagerActive == last.op = "active" /\ last.layer = "manager"

\* the name of the most recent call was passed to define, and the most
\* recent define supplied an evaluator
DefinedWithCheck == /\ last.name \in DOMAIN defineHistory
                    /\ defineHistory[last.name] \in Checks

\* C1: for a name whose most recent define supplied an evaluator e,
\* active(n, c) invokes e once with c and returns exactly the boolean e(c)
\* yields, for a synchronous and for a deferred e and for an omitted c ...
C1_Returns ==
    (/\ ManagerActive
     /\ DefinedWithCheck
     /\ check(defineHistory[last.name], last.context).out.kind \in {"return", "void"})
    => /\ last.out = check(defineHistory[last.name], last.context).out
       /\ last.checkCalls = <<<<last.name, last.context>>>>

\* ... and a define that repeats the evaluator of the previous one changes
\* nothing (a define with another evaluator is the most recent one above)
C1_Repeat ==
    (/\ last'.op = "define"
     /\ last'.name \in DOMAIN defineHistory
     /\ defineHistory'[last'.name] = defineHistory[last'.name])
    => featureMap' = featureMap

C1_ActiveReturnsCheckResult == [](C1_Returns) /\ [][C1_Repeat]_vars

\* a deferred evaluator answered true
C1_Witness ==
    /\ ManagerActive
    /\ DefinedWithCheck
    /\ defineHistory[last.name] = "asyncIsAdmin"
    /\ last.out = Return(TRUE)

\* what the definition alone gives for the most recent call
DefinitionOutcome ==
    IF defineHistory[last.name] = Undefined
    THEN Return(TRUE)
    ELSE check(defineHistory[last.name], last.context).out

\* C2: when n is in the definitions and the store holds a value for n,
\* active(n, c) does not read the store and its result is the one the
\* definition gives
C2_DefinitionPrecedes ==
    (/\ ManagerActive
     /\ last.name \in DOMAIN defineHistory
     /\ last.name \in DOMAIN storeHistory)
    => /\ last.storeReads = {}
       /\ last.out = DefinitionOutcome

\* the evaluator said false while the store held true
C2_Witness ==
    /\ ManagerActive
    /\ last.name \in DOMAIN defineHistory
    /\ last.name \in DOMAIN storeHistory
    /\ storeHistory[last.name].value = TRUE
    /\ storeUp
    /\ last.out = Return(FALSE)

\* C3: for a name whose most recent define supplied no evaluator,
\* active(n, c) returns true for every context
C3_NoCheckIsTrue ==
    (/\ ManagerActive
     /\ last.name \in DOMAIN defineHistory
     /\ defineHistory[last.name] = Undefined)
    => last.out = Return(TRUE)

\* true was returned with the context omitted while the store held false
C3_Witness ==
    /\ ManagerActive
    /\ last.name \in DOMAIN defineHistory
    /\ defineHistory[last.name] = Undefined
    /\ last.context = Undefined
    /\ last.name \in DOMAIN storeHistory
    /\ storeHistory[last.name].value = FALSE
    /\ storeUp
    /\ last.out = Return(TRUE)

\* C4: for a name never passed to define and with no value in the store,
\* active(n, c) never returns a boolean, and (no store attached, or the
\* store answered the read) fails with FeatureNotExistsError naming n
C4_UnknownIsNotFound ==
    (/\ ManagerActive
     /\ last.name \notin DOMAIN defineHistory
     /\ last.name \notin DOMAIN storeHistory)
    => /\ last.out.kind = "throw"
       /\ (~hasStore \/ storeUp)
            => /\ last.out.error = "FeatureNotExistsError"
               /\ last.name \in Range(last.out.message)

\* not-found with a store attached that has no value for the name
C4_Witness ==
    /\ ManagerActive
    /\ hasStore
    /\ storeUp
    /\ last.name \notin DOMAIN defineHistory
    /\ last.name \notin DOMAIN storeHistory
    /\ last.out.error = "FeatureNotExistsError"

\* C5: for a name never passed to define, once defineAndStore(n, v) has
\* completed, active(n, c) returns the v of the last completed call, with no
\* evaluator invoked (the store answering the read)
C5_StoredValueReturned ==
    (/\ ManagerActive
     /\ last.name \notin DOMAIN defineHistory
     /\ last.name \in DOMAIN storeHistory
     /\ storeHistory[last.name].by = "defineAndStore"
     /\ storeUp)
    => /\ last.out = Return(storeHistory[last.name].value)
       /\ last.checkCalls = <<>>

\* a stored false came back as false
C5_Witness ==
    /\ ManagerActive
    /\ last.name \notin DOMAIN defineHistory
    /\ last.name \in DOMAIN storeHistory
    /\ storeHistory[last.name].by = "defineAndStore"
    /\ storeHistory[last.name].value = FALSE
    /\ last.out = Return(FALSE)

\* C9: without a store, defineAndStore(n, v) fails with the error "No store
\* provider defined", which is not the not-found error, the definitions are
\* what the define calls made them, and active(n) of an n never defined
\* fails with not-found
C9_NoStoreIsConfigurationError ==
    (/\ last.op = "defineAndStore"
     /\ ~hasStore)
    => /\ last.out.kind = "throw"
       /\ last.out.error = "Error"
       /\ last.out.message = <<"No store provider defined">>
       /\ last.out.error # "FeatureNotExistsError"
       /\ featureMap = defineHistory
       /\ last.name \notin DOMAIN defineHistory
            => active(last.name, Undefined).out.error = "FeatureNotExistsError"

\* the call failed on a manager where the name was never defined
C9_Witness ==
    /\ last.op = "defineAndStore"
    /\ ~hasStore
    /\ last.out.kind = "throw"
    /\ last.name \notin DOMAIN defineHistory
    /\ last.name \notin DOMAIN featureMap

\* C10: if the store's set fails during defineAndStore(n, v), the call
\* fails with that same error
C10_SetFailurePropagates ==
    (/\ last.op = "defineAndStore"
     /\ hasStore
     /\ ~storeUp)
    => last.out = StoreError

----------------------------------------------------------------------------
(* Claims about the FanionService *)

\* a call of activeMany has returned or thrown
ManyReturned == many.state = "returned"

\* the positions of the list whose name comes at no later position: the
\* loop over the resolved promises leaves their values in the mapping
Deciding == {i \in 1..Len(many.flags) :
               \A j \in (i + 1)..Len(many.flags) : many.flags[j] # many.flags[i]}

\* the entry an evaluation that ended with out makes: false for a failure
Entry(out) == IF out.kind = "throw" THEN Return(FALSE) ELSE out

\* C6: activeMany(names, c) never fails as a whole: it resolves to a
\* mapping, in which every name whose evaluation fails (not-found, evaluator
\* error, store error, context provider error) is mapped to false
C6_ActiveManyNeverFails ==
    ManyReturned
    => /\ many.out = Mapping
       /\ \A i \in Deciding :
            many.evals[i].out.kind = "throw"
            => /\ many.flags[i] \in DOMAIN many.results
               /\ many.results[many.flags[i]] = Return(FALSE)

\* two names failed, one on its evaluator and one as not-found
C6_Witness ==
    /\ ManyReturned
    /\ Len(many.flags) = 2
    /\ many.evals[1].out = BoomError
    /\ many.evals[2].out.error = "FeatureNotExistsError"
    /\ many.out = Mapping
    /\ many.results[many.flags[1]] = Return(FALSE)
    /\ many.results[many.flags[2]] = Return(FALSE)

\* C7: the mapping of activeMany(names, c) has the names of the list as its
\* keys, each once, and the entry of a name whose evaluation succeeds is
\* what its call of active returned, whatever becomes of the others: what
\* active(name, c) returns in the state of the call, when the definitions
\* have not changed since
C7_OneEntryPerName ==
    ManyReturned
    => /\ DOMAIN many.results = Range(many.flags)
       /\ \A i \in Deciding :
            many.evals[i].out.kind # "throw"
            => many.results[many.flags[i]] = many.evals[i].out
       /\ many.defines = 0
            => \A n \in Range(many.flags) :
                 serviceActive(n, many.context).out.kind \in {"return", "void"}
                 => many.results[n] = serviceActive(n, many.context).out

\* the first name failed and the second, another name, came out true
C7_Witness ==
    /\ ManyReturned
    /\ many.defines = 0
    /\ Len(many.flags) = 2
    /\ many.flags[1] # many.flags[2]
    /\ serviceActive(many.flags[1], many.context).out.kind = "throw"
    /\ serviceActive(many.flags[2], many.context).out = Return(TRUE)
    /\ DOMAIN many.results = {many.flags[1], many.flags[2]}
    /\ many.results[many.flags[2]] = Return(TRUE)

\* the context the evaluator of the most recent active call is handed: the
\* caller's, or on the service the default provider's when the caller gave none
PassedContext ==
    IF last.layer = "service" /\ last.context = Undefined
                              /\ defaultContextProvider # Undefined
    THEN callProvider(defaultContextProvider).context
    ELSE last.context

\* the most recent active call, on either layer, reached the evaluator
EvaluatorReached ==
    /\ last.op = "active"
    /\ DefinedWithCheck
    /\ ~(/\ last.layer = "service"
         /\ last.context = Undefined
         /\ defaultContextProvider = "failingProvider")

\* C8: if the evaluator registered for n raises an error when invoked with
\* c, active(n, c) fails with that same error, on the manager and through
\* the service
C8_CheckErrorUnchanged ==
    (/\ EvaluatorReached
     /\ check(defineHistory[last.name], PassedContext).out.kind = "throw")
    => last.out = check(defineHistory[last.name], PassedContext).out

\* the service's active failed with the evaluator's "boom"
C8_Witness ==
    /\ EvaluatorReached
    /\ last.layer = "service"
    /\ defineHistory[last.name] = "boom"
    /\ last.out = BoomError

----------------------------------------------------------------------------
(* Claims about the storage providers *)

\* the store attached has an initStore method
HasInitHook == driver \in DatabaseDrivers \cup {"stub"}

\* the most recent call initialized the store through the manager
InitCalled == last.op \in {"initStore", "featureManagerWithDatabase"}

\* C11: a failure raised by the attached store is propagated verbatim by
\* initStore and by featureManagerWithDatabase, which then returns no
\* manager ...
C11_InitFailure ==
    /\ (/\ InitCalled
        /\ last.init.asked
        /\ last.init.answer.kind = "throw")
       => /\ last.out = last.init.answer
          /\ last.out.kind # "manager"
    /\ (/\ InitCalled
        /\ hasStore
        /\ driver \in KnexDrivers \cup {"stub"}
        /\ ~storeUp)
       => last.out = StoreError

\* ... and by the store-fallback branch of active(n) for an n that is not
\* registered: a failing read is reported neither as not-found nor as a
\* boolean
C11_ReadFailure ==
    (/\ ManagerActive
     /\ hasStore
     /\ last.name \notin DOMAIN defineHistory)
    => /\ storeGet(last.name).kind = "throw" => last.out = storeGet(last.name)
       /\ (driver \in KnexDrivers \cup {"stub"} /\ ~storeUp) => last.out = StoreError
       /\ (driver \in KnexDrivers /\ ~tableExists) => last.out = StoreError

C11_StoreFailurePropagates == C11_InitFailure /\ C11_ReadFailure

\* featureManagerWithDatabase failed on a Knex driver whose database is down
C11_Witness ==
    /\ last.op = "featureManagerWithDatabase"
    /\ driver \in KnexDrivers
    /\ ~storeUp
    /\ last.out = StoreError
    /\ last.init.answer = StoreError

\* C12: initStore is a no-op that completes without error, when no store is
\* attached and when the store attached has no initStore method (the
\* in-memory driver), so that initializing a manager or a service on the
\* in-memory driver succeeds ...
C12_Completes ==
    (/\ last.op \in {"initStore", "featureManagerWithDatabase", "initialize"}
     /\ (~hasStore \/ driver = "memory"))
    => last.out.kind # "throw"

\* ... and it leaves the definitions and the contents of the store as they were
C12_Frame ==
    (/\ last'.op \in {"initStore", "initialize"}
     /\ (~hasStore \/ driver = "memory"))
    => /\ featureMap' = featureMap
       /\ storage' = storage

C12_InitStoreIsNoOp == [](C12_Completes) /\ [][C12_Frame]_vars

\* the most recent call is get(n) on the store, answered by a backend that
\* is up and has its table
StoreRead ==
    /\ last.op = "get"
    /\ storeUp
    /\ tableExists

\* C15: on each driver, after set(n, v) has completed get(n) returns v, for
\* v true and for v false, and after set(n, v1) and set(n, v2) it returns
\* v2 ...
C15_ReadsLastWrite ==
    (/\ StoreRead
     /\ last.name \in DOMAIN storeHistory)
    => last.out = Return(storeHistory[last.name].value)

\* ... and a set or a delete of another name does not change what get(n)
\* returns
C15_OtherNames ==
    (/\ last'.op \in {"set", "delete"}
     /\ last'.layer = "store")
    => \A n \in Names \ {last'.name} : storeGet(n)' = storeGet(n)

C15_RoundTrip == [](C15_ReadsLastWrite) /\ [][C15_OtherNames]_vars

\* a false written over a true came back as false from a table that keeps
\* its booleans as integers
C15_Witness ==
    /\ StoreRead
    /\ driver = "knexInteger"
    /\ last.name \in DOMAIN storeHistory
    /\ storeHistory[last.name].value = FALSE
    /\ storage[last.name] = IntegerColumn(0)
    /\ last.out = Return(FALSE)

\* C16: on each driver, get(n) of a name that was never set, or was deleted
\* after its last set, returns undefined: it neither fails nor returns
\* false; and active(n) of such a name that is not registered fails with
\* not-found
C16_AbsentIsUndefined ==
    /\ (/\ StoreRead
        /\ last.name \notin DOMAIN storeHistory)
       => last.out = Void
    /\ (/\ ManagerActive
        /\ hasStore
        /\ storeUp
        /\ tableExists
        /\ last.name \notin DOMAIN defineHistory
        /\ last.name \notin DOMAIN storeHistory)
       => last.out.error = "FeatureNotExistsError"

----------------------------------------------------------------------------
(* Claims about the flags a service tracks *)

\* the most recent call is getDefinedFlags()
FlagsListed == last.op = "getDefinedFlags"

\* the names a completed defineAndStore of the service wrote to the store
StoredByService ==
    {n \in DOMAIN storeHistory : storeHistory[n].by = "defineAndStore"}

\* C13 as stated: getDefinedFlags returns only names that are in the
\* definitions table; a name that was only written to the store through
\* defineAndStore does not appear in the list
C13_OnlyDefinitions ==
    FlagsListed => Range(last.flags) \subseteq DOMAIN featureMap

\* C13, amended: getDefinedFlags returns only names that are in the
\* definitions table or were written to the store by a completed
\* defineAndStore of the service, and every name so written does appear in
\* the list, in the definitions table or not
C13_OnlyRegistered ==
    FlagsListed
    => /\ Range(last.flags) \subseteq DOMAIN featureMap \cup StoredByService
       /\ StoredByService \subseteq Range(last.flags)

\* the list holds a name that is in the store and not in the definitions
C13_Witness ==
    /\ FlagsListed
    /\ \E n \in Range(last.flags) :
         /\ n \notin DOMAIN featureMap
         /\ n \in StoredByService
         /\ storage[n] = storeHistory[n].value

\* C14: getDefinedFlags returns exactly the names registered through the
\* service by define or by a completed defineAndStore, each name once ...
C14_Returned ==
    FlagsListed
    => /\ Range(last.flags) = DOMAIN defineHistory \cup StoredByService
       /\ Cardinality(Range(last.flags)) = Len(last.flags)
       /\ last.flags = definedFlags

\* ... in the order of first registration: a call appends at most the name
\* it registers, after the names that are there, which keep their places,
\* and a call that fails adds no name
C14_Order ==
    /\ Len(definedFlags') >= Len(definedFlags)
    /\ SubSeq(definedFlags', 1, Len(definedFlags)) = definedFlags
    /\ last'.out.kind = "throw" => definedFlags' = definedFlags
    /\ definedFlags' # definedFlags
         => /\ definedFlags' = Append(definedFlags, last'.name)
            /\ last'.name \notin Range(definedFlags)
            /\ last'.op \in {"define", "defineAndStore", "defineFromDefinition"}

C14_FlagsInRegistrationOrder == [](C14_Returned) /\ [][C14_Order]_vars

\* a stored name first and a defined name second, while the store holds both
C14_Witness ==
    /\ FlagsListed
    /\ Len(last.flags) = 2
    /\ last.flags[1] \in StoredByService
    /\ last.flags[1] \notin DOMAIN defineHistory
    /\ last.flags[2] \in DOMAIN defineHistory
    /\ last.flags[2] \in StoredByService

\* C20: for a definition with no check and a defaultValue d, once
\* defineFromDefinition has completed active(name) returns d, false for d
\* false, whether or not the definition sets store and whether or not the
\* service has a store
C20_DefaultValueAnswers ==
    (/\ last.op = "defineFromDefinition"
     /\ last.out.kind # "throw"
     /\ last.definition.check = Undefined
     /\ last.definition.defaultValue # Undefined)
    => serviceActive(last.name, Undefined).out
         = Return(OrDefault(last.definition.defaultValue, TRUE))

----------------------------------------------------------------------------
(* Claims about the middleware *)

\* what the flag of the request handled evaluated to when handle asked
Evaluation == request.isActive

\* the request handled got as far as the evaluation of its flag
Evaluated ==
    /\ request.state = "done"
    /\ request.resolves
    /\ request.options.contextProvider # "failingProvider"

\* C17: when handle completes without error, next is invoked exactly once
\* if the flag evaluates to active or onDisabled is 'next', and not at all
\* when the flag is off and onDisabled is 'abort' (the default), 'redirect'
\* or 'custom', whatever the response method or the custom handler returns
C17_RouteProtection ==
    (/\ Evaluated
     /\ request.out.kind # "throw")
    => IF Evaluation = Return(TRUE) \/ request.options.onDisabled = "next"
       THEN request.nextCalls = 1
       ELSE request.nextCalls = 0

\* C18: if resolving the service, the context provider or the evaluation of
\* the flag fails, handle fails with that same error, and neither next nor
\* a response method nor the custom handler is invoked, at any moment of
\* the call
C18_EvaluationErrorStops ==
    /\ (request.state = "done" /\ ~request.resolves)
       => request.out = ResolveError
    /\ (/\ request.state = "done"
        /\ request.resolves
        /\ request.options.contextProvider = "failingProvider")
       => request.out = ProviderError
    /\ (Evaluated /\ Evaluation.kind = "throw")
       => request.out = Evaluation
    /\ (\/ ~request.resolves
        \/ request.options.contextProvider = "failingProvider"
        \/ Evaluation.kind = "throw")
       => /\ request.nextCalls = 0
          /\ request.responseCalls = <<>>
          /\ request.customCalls = 0

\* an unknown flag on a route whose onDisabled is 'next' stopped the request
\* with not-found
C18_Witness ==
    /\ Evaluated
    /\ request.options.onDisabled = "next"
    /\ request.options.flag \notin DOMAIN featureMap
    /\ request.out.error = "FeatureNotExistsError"
    /\ request.nextCalls = 0

----------------------------------------------------------------------------
(* Claims about the helpers *)

\* what an identifier counts for: a string for its length
Counts(identifier) ==
    IF identifier.string THEN Len(identifier.text) ELSE identifier.number

\* C19: percentageRollout(id, p) is false for every identifier when p = 0
\* and true for every identifier when p = 100, for the integers of a range
\* with negative values and for strings, and for 0 <= p <= 100 it is
\* (id mod 100) < p with id mod 100 taken in 0..99
C19_PercentageRollout ==
    rollout.decided
    => /\ rollout.percentage = 0 => ~rollout.result
       /\ rollout.percentage = Hundred => rollout.result
       /\ rollout.result = (Counts(rollout.identifier) % Hundred < rollout.percentage)

----------------------------------------------------------------------------
(* Claims about the context of an evaluation *)

\* the most recent call is active(name, context) on the service
ServiceActiveCalled == last.op = "active" /\ last.layer = "service"

\* C21: FanionService.active(name, context) calls the defaultContextProvider
\* only when the caller provides no context; whenever the caller provides a
\* context value, the evaluator receives exactly that value and the default
\* provider is not invoked
C21_ProvidedContextIsUsed ==
    (/\ ServiceActiveCalled
     /\ last.context # Undefined)
    => /\ last.providerCalls = 0
       /\ \A i \in 1..Len(last.checkCalls) : last.checkCalls[i][2] = last.context

----------------------------------------------------------------------------
(* Claims about calls that overlap *)

\* a call of active is over that found its name outside the definitions
\* when it started, on a manager with a store
FellBack == call.state = "done" /\ ~call.registered /\ hasStore

\* C22: when defineAndStore(n, v) is called without waiting for it to
\* complete and active(n) is invoked directly afterwards on the same manager
\* (n never defined), active(n) returns v: the write is visible to the read
\* in every order in which the store serves the two
C22_UnawaitedWriteIsVisible ==
    (/\ FellBack
     /\ call.name \notin DOMAIN defineHistory
     /\ call.expected # Undefined)
    => call.out = Return(call.expected = "true")

\* what the answer of the store makes of a call: the stored boolean,
\* not-found when the store has nothing (or there is no store to ask), and
\* the store's error when the read failed
AnswerOutcome ==
    IF call.answer.kind = "void"
    THEN FeatureNotExistsError(NotDefinedMessage(call.name))
    ELSE call.answer

\* C27: each active(n) call is resolved one way only, fixed by whether n is
\* registered at the moment of the call: a call that starts while n is
\* unregistered is decided solely by the store's answer, even if
\* define(n, e) happens while the store lookup is pending, and e is never
\* invoked for that call; a call that starts while n is registered never
\* reads the store
C27_ResolvedOneWay ==
    call.state = "done"
    => IF call.registered
       THEN ~call.read
       ELSE /\ call.read = hasStore
            /\ call.checkCalls = <<>>
            /\ call.out = AnswerOutcome

\* a stored false was returned by a call during whose lookup the name was
\* defined with an evaluator that says true for the context of the call
C27_Witness ==
    /\ call.state = "done"
    /\ ~call.registered
    /\ call.read
    /\ driver \in DatabaseDrivers
    /\ call.name \in DOMAIN featureMap
    /\ featureMap[call.name] = "asyncIsAdmin"
    /\ call.context = "admin"
    /\ call.answer = Return(FALSE)
    /\ call.out = Return(FALSE)

----------------------------------------------------------------------------
(* Claims about the life of a registry *)

\* C23: registration is monotonic: once define(n, .) has been called on a
\* registry, n stays registered for the rest of that registry's life; after
\* any later sequence of define, defineAndStore, active, initStore and
\* store set/delete operations active(n) never fails with not-found and
\* never falls back to the store: no step takes a name out of the
\* definitions ...
C23_NoWayBack ==
    \A n \in Names : n \in DOMAIN featureMap => n \in DOMAIN featureMap'

\* ... and every name once passed to define is answered by its definition,
\* whatever the store holds and whether it is up, in every call of active
\* that starts from then on
C23_AnsweredByDefinition ==
    /\ \A n \in DOMAIN defineHistory :
         /\ active(n, Undefined).out.error # "FeatureNotExistsError"
         /\ active(n, Undefined).storeReads = {}
    /\ (ManagerActive /\ call.registered)
       => /\ last.name \in DOMAIN defineHistory
          /\ last.out.error # "FeatureNotExistsError"
          /\ last.storeReads = {}
          /\ last.out = DefinitionOutcome

C23_RegistrationIsMonotonic ==
    [](C23_AnsweredByDefinition) /\ [][C23_NoWayBack]_vars

\* a defined name that has no row was answered by its definition, on a table
\* initStore made in which another name has been stored
C23_Witness ==
    /\ ManagerActive
    /\ call.registered
    /\ last.name \in DOMAIN defineHistory
    /\ defineHistory[last.name] = "alwaysFalse"
    /\ last.out = Return(FALSE)
    /\ driver \in DatabaseDrivers
    /\ tableExists
    /\ last.name \notin DOMAIN storage
    /\ \E n \in Names \ {last.name} : n \in DOMAIN storeHistory

\* two maps agree on every key but k
SameBut(m1, m2, k) ==
    /\ DOMAIN m1 \ {k} = DOMAIN m2 \ {k}
    /\ \A x \in DOMAIN m1 \ {k} : m1[x] = m2[x]

\* C24: each registration operation touches exactly one table at one key:
\* define(n, e) changes only the definitions entry of n and leaves every
\* other entry and the whole store unchanged ...
C24_DefineFrame ==
    last'.op = "define"
    => /\ last'.name \in DOMAIN featureMap'
       /\ SameBut(featureMap', featureMap, last'.name)
       /\ storage' = storage
       /\ tableExists' = tableExists

\* ... defineAndStore(n, v) changes only the store value of n and leaves
\* the registry's definitions unchanged ...
C24_DefineAndStoreFrame ==
    last'.op = "defineAndStore"
    => /\ featureMap' = featureMap
       /\ SameBut(storage', storage, last'.name)
       /\ last'.out.kind = "void"
            => /\ last'.name \in DOMAIN storage'
               /\ \A n \in Names :
                    n = last'.name => storeGet(n)' = Return(last'.value)
       /\ last'.out.kind = "throw" => storage' = storage

\* ... so n does not become registered and every later active(n) queries
\* the store again
C24_StoreAskedAgain ==
    (/\ ManagerActive
     /\ hasStore
     /\ last.name \notin DOMAIN defineHistory)
    => /\ last.name \notin DOMAIN featureMap
       /\ last.storeReads = {last.name}
       /\ last.checkCalls = <<>>

C24_OneTableOneKey ==
    [](C24_StoreAskedAgain) /\ [][C24_DefineFrame /\ C24_DefineAndStoreFrame]_vars

\* defineAndStore has written a name that is not in the definitions, next
\* to a name that is defined and one that is stored
C24_Witness ==
    /\ last.op = "defineAndStore"
    /\ last.out = Void
    /\ last.name \notin DOMAIN featureMap
    /\ storeGet(last.name) = Return(last.value)
    /\ \E n \in Names \ {last.name} :
         /\ n \in DOMAIN featureMap
         /\ n \in DOMAIN storage

----------------------------------------------------------------------------
(* Claims about the DynamoDB driver *)

\* C28: the DynamoDB driver's get(n) returns absent only when the table
\* holds no item for n: a failed read (missing table, connectivity or
\* permission error) is not reported as absent, so on a manager backed by
\* this driver active(n) fails with not-found only for flags that have no
\* stored value
C28_AbsentOnlyWithoutItem ==
    driver = "dynamodb"
    => /\ (last.op = "get" /\ last.out = Void)
          => /\ last.name \notin DOMAIN storage
             /\ storeUp
             /\ tableExists
       /\ (ManagerActive /\ last.out.error = "FeatureNotExistsError")
          => last.name \notin DOMAIN storage

----------------------------------------------------------------------------
(* Claims about activeMany and its evaluations *)

\* what the evaluation of name n alone gives the call under way
OwnEvaluation(n) == serviceActive(n, many.context).out

\* C25: for a fixed registry and store state and deterministic evaluators,
\* activeMany(names, c) returns the same mapping for every completion order
\* of the individual evaluations: the entry of a name depends only on that
\* name's own evaluation, never on which evaluation finishes first or on
\* the failure of another name
C25_OrderDoesNotMatter ==
    ManyReturned
    => /\ DOMAIN many.results = Range(many.flags)
       /\ \A i \in Deciding :
            many.results[many.flags[i]] = Entry(many.evals[i].out)
       /\ many.defines = 0
            => \A n \in Range(many.flags) :
                 many.results[n] = Entry(OwnEvaluation(n))

\* the second evaluation finished first and gave true, the first one failed
C25_Witness ==
    /\ ManyReturned
    /\ many.defines = 0
    /\ many.order = <<2, 1>>
    /\ many.flags[1] # many.flags[2]
    /\ OwnEvaluation(many.flags[1]).kind = "throw"
    /\ OwnEvaluation(many.flags[2]) = Return(TRUE)
    /\ many.results[many.flags[1]] = Return(FALSE)
    /\ many.results[many.flags[2]] = Return(TRUE)

\* an evaluation of the call under way has reached an evaluator that never
\* completes
SomePending ==
    \E i \in 1..Len(many.evals) :
        /\ many.evals[i].state = "active"
        /\ many.evals[i].call.out.kind = "pending"

\* C26: activeMany starts the evaluation of every requested name before
\* waiting for any of them, returns only after every requested evaluation
\* has settled (a failed evaluation does not make it return early), and if
\* one of them never completes activeMany never completes ...
C26_Join ==
    /\ many.state = "waiting"
       => /\ Len(many.evals) = Len(many.flags)
          /\ \A i \in 1..Len(many.evals) : many.evals[i].state # "idle"
    /\ many.state = "returned"
       => /\ \A i \in 1..Len(many.evals) : many.evals[i].settled
          /\ Len(many.order) = Len(many.flags)
          /\ ~SomePending
    /\ \A i \in 1..Len(many.evals) :
         many.evals[i].settled => many.evals[i].out.kind # "pending"

\* ... and it eventually returns whenever every evaluator and store call
\* involved eventually completes or fails
C26_Returns ==
    (many.state = "waiting") ~> (many.state = "returned" \/ SomePending)

C26_StartsAllAndJoins == [](C26_Join) /\ C26_Returns

\* activeMany returned after two evaluations of which the one that settled
\* first had failed
C26_Witness ==
    /\ many.state = "returned"
    /\ Len(many.flags) = 2
    /\ many.evals[many.order[1]].out.kind = "throw"
    /\ \A i \in 1..2 : many.evals[i].settled

\* C29: the DynamoDB driver's createTableIfNotExists (and initStore) always
\* terminates: if the table exists it returns without sending a create
\* command; if the table is missing it sends exactly one create command and
\* then polls the table status at most 30 times, returning as soon as the
\* status is ACTIVE and failing with an error after the 30th unsuccessful
\* attempt, also when the status calls themselves keep failing; a describe
\* error other than resource-not-found is rethrown without creating a table
C29_Bounded ==
    /\ \A i \in Invocations :
         /\ inits.calls[i].creates <= 1
         /\ inits.calls[i].polls <= MaxAttempts
         /\ inits.calls[i].state = "waiting"
            => /\ inits.calls[i].creates = 1
               /\ inits.calls[i].polls = inits.calls[i].attempt
               /\ inits.calls[i].attempt < MaxAttempts
               /\ inits.calls[i].status # "ACTIVE"
    /\ last.op = "createTableIfNotExists"
       => /\ last.init.polls <= MaxAttempts
          /\ CASE last.init.first = "found" ->
                    /\ last.out = Void
                    /\ last.init.creates = 0
                    /\ last.init.polls = 0
               [] last.init.first = "error" ->
                    /\ last.out = StoreError
                    /\ last.init.creates = 0
                    /\ last.init.polls = 0
                    /\ ~last.init.created
               [] OTHER ->
                    /\ last.init.creates = 1
                    /\ last.out = Void
                         => /\ last.init.status = "ACTIVE"
                            /\ last.init.polls = last.init.attempt + 1
                    /\ last.out = NotActiveError
                         => /\ last.init.status # "ACTIVE"
                            /\ last.init.polls = MaxAttempts
                    /\ last.out \in {StoreError, ResourceInUseError}
                         => last.init.polls = 0
                    /\ last.out \in {Void, NotActiveError, StoreError,
                                     ResourceInUseError}

\* a call that has started comes to its end, which leaves its caller free
C29_Terminates ==
    \A i \in Invocations :
        (inits.calls[i].state # "idle") ~> (inits.calls[i].state = "idle")

C29_CreateTableTerminates == [](C29_Bounded) /\ C29_Terminates

\* the call gave up after its last attempt, whose status call had failed
C29_Witness ==
    /\ last.op = "createTableIfNotExists"
    /\ last.init.first = "ResourceNotFoundException"
    /\ last.init.creates = 1
    /\ last.init.polls = MaxAttempts
    /\ last.init.status = "error"
    /\ last.out = NotActiveError

----------------------------------------------------------------------------
(* Claims about the Knex driver creating its table *)

\* C30: for the Knex driver, any number of sequential or concurrent
\* createTableIfNotExists / initStore invocations against the same table
\* create the table at most once and all complete without error ...
C30_AllComplete ==
    /\ inits.created <= 1
    /\ last.op \in {"createTableIfNotExists", "initStore"} => last.out = Void

\* ... and an invocation that finds the table present performs no schema
\* change and keeps the stored flags
C30_PresentIsKept ==
    \A i \in Invocations :
        (/\ inits.calls[i].state = "checking"
         /\ inits'.calls[i].state = "idle"
         /\ last'.init.hasTable)
        => /\ last'.out = Void
           /\ tableExists' = tableExists
           /\ storage' = storage
           /\ inits'.created = inits.created

C30_CreatesOnceWithoutError == [](C30_AllComplete) /\ [][C30_PresentIsKept]_vars

====
